---- MODULE Spec2Model ----
(***************************************************************************)
(* Session engine of the PocketSSH handheld terminal                       *)
(* (main/ssh_terminal.cpp): host-alias resolution, command history,        *)
(* scrollback and ingress buffering.                                       *)
(*                                                                         *)
(* Strings are sequences of one-character strings, so that the character   *)
(* loops of the source can be followed index by index.                     *)
(***************************************************************************)
EXTENDS Integers, Sequences, FiniteSets, TLC

VARIABLES
    \* ---- wildcard_match / host_block_matches call records ----
    wm_pattern, wm_text, wm_result,
    hb_patterns, hb_alias, hb_result,
    \* ---- host-alias file on the card and the last resolve_ssh_alias call ----
    config_exists, config_lines, res_alias, resolved,
    \* ---- input line and command history of the terminal controller ----
    command_history, history_index, current_input, cursor_pos,
    history_needs_save, input_fault, last_op, op_prev_len,
    \* ---- key-value store holding the persisted history ----
    nvs_has_count, nvs_hist_count, nvs_strs, saved_history,
    \* ---- terminal text area (scrollback) and what was appended to it ----
    terminal_output, terminal_text, appended, max_append, oversize_calls, term_op,
    \* ---- ingress buffer of the receive task ----
    text_buffer, bytes_received, since_display_update,
    last_cleaned, last_cut,
    \* ---- the last strip_ansi_codes call on its own ----
    strip_data, strip_result,
    \* ---- session handles, the UI context and the reader workers ----
    ssh_connected, ssh_socket, session, channel, ui, readers,
    acquired, released, attempts,
    \* ---- the send_command call in progress ----
    send,
    \* ---- the alias connect in progress ----
    alias_call,
    \* ---- the last find_loaded_key_with_fallback call ----
    key_call,
    \* ---- the last wifi auto / wifi profile lookup ----
    wifi_call, enter_call, parse_call, alloc, history_save_timer,
    \* ---- serial side-load transfer ----
    rx,
    \* ---- rotary encoder ----
    enc

wmVars  == <<wm_pattern, wm_text, wm_result>>
hbVars  == <<hb_patterns, hb_alias, hb_result>>
cfgVars == <<config_exists, config_lines, res_alias, resolved>>
histVars == <<command_history, history_index, current_input, cursor_pos,
              history_needs_save, input_fault, last_op, op_prev_len>>
nvsVars == <<nvs_has_count, nvs_hist_count, nvs_strs, saved_history>>
scrollVars == <<terminal_output, terminal_text, appended, max_append, oversize_calls, term_op>>
ingressVars == <<text_buffer, bytes_received, since_display_update, last_cleaned, last_cut>>
stripVars == <<strip_data, strip_result>>
sessVars == <<ssh_connected, ssh_socket, session, channel, ui, readers,
              acquired, released, attempts>>
sendVars == <<send>>
aliasVars == <<alias_call>>
keyVars == <<key_call>>
wifiVars == <<wifi_call>>
enterVars == <<enter_call>>
parseVars == <<parse_call>>
allocVars == <<alloc>>
dirtyVars == <<history_save_timer>>
rxVars == <<rx>>
encVars == <<enc>>
fourthVars == <<rxVars, encVars>>
thirdVars == <<keyVars, wifiVars, enterVars, parseVars, allocVars, dirtyVars, fourthVars>>
lateVars == <<stripVars, sessVars, sendVars, aliasVars, thirdVars>>
vars == <<wmVars, hbVars, cfgVars, histVars, nvsVars, scrollVars, ingressVars, lateVars>>

(***************************************************************************)
(* Generic helpers                                                         *)
(***************************************************************************)
NPOS == -1

SeqsUpTo(S, n) == UNION {[1..k -> S] : k \in 0..n}

Suffix(s, k) == SubSeq(s, Len(s) - k + 1, Len(s))

StartsWith(s, prefix) ==
    /\ Len(s) >= Len(prefix)
    /\ SubSeq(s, 1, Len(prefix)) = prefix

(***************************************************************************)
(* lowercase_ascii: std::tolower on every character.                       *)
(***************************************************************************)
UpperLetters ==
    <<"A","B","C","D","E","F","G","H","I","J","K","L","M",
      "N","O","P","Q","R","S","T","U","V","W","X","Y","Z">>

LowerLetters ==
    <<"a","b","c","d","e","f","g","h","i","j","k","l","m",
      "n","o","p","q","r","s","t","u","v","w","x","y","z">>

LowerChar(c) ==
    IF \E k \in 1..26 : UpperLetters[k] = c
    THEN LowerLetters[CHOOSE k \in 1..26 : UpperLetters[k] = c]
    ELSE c

lowercase_ascii(value) == [i \in 1..Len(value) |-> LowerChar(value[i])]

(***************************************************************************)
(* wildcard_match: the greedy single-backtrack-point loop of the source.   *)
(* Indices are 0-based as in the source; pat[p] there is pat[p + 1] here.  *)
(***************************************************************************)
RECURSIVE skip_stars(_, _)
skip_stars(pat, p) ==
    IF p < Len(pat) /\ pat[p + 1] = "*" THEN skip_stars(pat, p + 1) ELSE p

RECURSIVE wildcard_loop(_, _, _, _, _, _)
wildcard_loop(pat, text, p, t, star, match) ==
    IF t < Len(text)
    THEN IF p < Len(pat) /\ (pat[p + 1] = "?" \/ pat[p + 1] = text[t + 1])
         THEN wildcard_loop(pat, text, p + 1, t + 1, star, match)
         ELSE IF p < Len(pat) /\ pat[p + 1] = "*"
         THEN wildcard_loop(pat, text, p + 1, t, p, t)
         ELSE IF star # NPOS
         THEN wildcard_loop(pat, text, star + 1, match + 1, star, match + 1)
         ELSE FALSE
    ELSE skip_stars(pat, p) = Len(pat)

wildcard_match(pattern, candidate) ==
    wildcard_loop(lowercase_ascii(pattern), lowercase_ascii(candidate), 0, 0, NPOS, 0)

(***************************************************************************)
(* host_block_matches: one pass over the pattern list; a matching negated  *)
(* pattern returns false at once, positive matches are accumulated.        *)
(***************************************************************************)
RECURSIVE host_block_loop(_, _, _, _, _)
host_block_loop(patterns, alias, i, has_positive, positive_match) ==
    IF i > Len(patterns)
    THEN has_positive /\ positive_match
    ELSE LET raw_pattern == patterns[i] IN
         IF raw_pattern = <<>>
         THEN host_block_loop(patterns, alias, i + 1, has_positive, positive_match)
         ELSE IF raw_pattern[1] = "!"
         THEN LET neg == SubSeq(raw_pattern, 2, Len(raw_pattern)) IN
              IF neg # <<>> /\ wildcard_match(neg, alias)
              THEN FALSE
              ELSE host_block_loop(patterns, alias, i + 1, has_positive, positive_match)
         ELSE host_block_loop(patterns, alias, i + 1, TRUE,
                              positive_match \/ wildcard_match(raw_pattern, alias))

\* variant: the first pattern that matches decides, whatever follows it
RECURSIVE host_block_first_decides(_, _, _)
host_block_first_decides(patterns, alias, i) ==
    IF i > Len(patterns) THEN FALSE
    ELSE LET raw_pattern == patterns[i] IN
         IF raw_pattern = <<>> THEN host_block_first_decides(patterns, alias, i + 1)
         ELSE IF raw_pattern[1] = "!"
         THEN IF Len(raw_pattern) > 1
                 /\ wildcard_match(SubSeq(raw_pattern, 2, Len(raw_pattern)), alias)
              THEN FALSE
              ELSE host_block_first_decides(patterns, alias, i + 1)
         ELSE IF wildcard_match(raw_pattern, alias) THEN TRUE
         ELSE host_block_first_decides(patterns, alias, i + 1)

host_block_matches_first_decides(patterns, alias) ==
    host_block_first_decides(patterns, alias, 1)

host_block_matches(patterns, alias) ==
    host_block_loop(patterns, alias, 1, FALSE, FALSE)

(***************************************************************************)
(* String literals of the configuration code, as character sequences.      *)
(***************************************************************************)
Lit ==
    [ host |-> <<"h","o","s","t">>,
      hostname |-> <<"h","o","s","t","n","a","m","e">>,
      user |-> <<"u","s","e","r">>,
      port |-> <<"p","o","r","t">>,
      identityfile |-> <<"i","d","e","n","t","i","t","y","f","i","l","e">>,
      identitiesonly |-> <<"i","d","e","n","t","i","t","i","e","s","o","n","l","y">>,
      connecttimeout |-> <<"c","o","n","n","e","c","t","t","i","m","e","o","u","t">>,
      serveraliveinterval |-> <<"s","e","r","v","e","r","a","l","i","v","e","i","n","t","e","r","v","a","l">>,
      serveralivecountmax |-> <<"s","e","r","v","e","r","a","l","i","v","e","c","o","u","n","t","m","a","x">>,
      stricthostkeychecking |-> <<"s","t","r","i","c","t","h","o","s","t","k","e","y","c","h","e","c","k","i","n","g">>,
      network |-> <<"n","e","t","w","o","r","k">>,
      tpagernetwork |-> <<"t","p","a","g","e","r","n","e","t","w","o","r","k">>,
      fontsize |-> <<"f","o","n","t","s","i","z","e">>,
      yes |-> <<"y","e","s">>,
      true |-> <<"t","r","u","e">>,
      on |-> <<"o","n">>,
      no |-> <<"n","o">>,
      false |-> <<"f","a","l","s","e">>,
      off |-> <<"o","f","f">>,
      big |-> <<"b","i","g">>,
      large |-> <<"l","a","r","g","e">>,
      normal |-> <<"n","o","r","m","a","l">>,
      small |-> <<"s","m","a","l","l">>,
      ask |-> <<"a","s","k">>,
      one |-> <<"1">>,
      zero |-> <<"0">>,
      home_ssh |-> <<"~","/",".","s","s","h","/">>,
      sd_ssh_keys |-> <<"/","s","d","/","s","s","h","_","k","e","y","s","/">>,
      root_ssh_keys |-> <<"/","s","s","h","_","k","e","y","s","/">>,
      kSshKeysRoot |-> <<"/","s","d","c","a","r","d","/","s","s","h","_","k","e","y","s","/">>,
      sd |-> <<"/","s","d","/">>,
      sdcard_rel |-> <<"s","d","c","a","r","d","/">>,
      ssh_keys_rel |-> <<"s","s","h","_","k","e","y","s","/">> ]

(***************************************************************************)
(* Character-level helpers of the configuration parser.                    *)
(***************************************************************************)
IsSpace(c) == c \in {" ", "\t", "\n", "\r", "\f"}

IsDigit(c) == c \in {"0","1","2","3","4","5","6","7","8","9"}

DigitVal(c) == CHOOSE d \in 0..9 : <<"0","1","2","3","4","5","6","7","8","9">>[d + 1] = c

\* std::string::find(ch): 0-based index of the first occurrence, or NPOS
FindChar(s, chars) ==
    IF \E i \in 1..Len(s) : s[i] \in chars
    THEN (CHOOSE i \in 1..Len(s) : s[i] \in chars /\ \A j \in 1..(i - 1) : s[j] \notin chars) - 1
    ELSE NPOS

RECURSIVE trim_start(_, _)
trim_start(value, start) ==
    IF start < Len(value) /\ IsSpace(value[start + 1])
    THEN trim_start(value, start + 1) ELSE start

RECURSIVE trim_end(_, _, _)
trim_end(value, start, end) ==
    IF end > start /\ IsSpace(value[end])
    THEN trim_end(value, start, end - 1) ELSE end

trim_ascii(value) ==
    LET start == trim_start(value, 0)
        end   == trim_end(value, start, Len(value))
    IN  SubSeq(value, start + 1, end)

\* quote_char = "" stands for '\0' (not inside quotes)
RECURSIVE strip_comment_loop(_, _, _)
strip_comment_loop(line, i, quote_char) ==
    IF i > Len(line) THEN line
    ELSE LET c == line[i]
             in_quotes == quote_char # ""
         IN  IF c \in {"\"", "'"} /\ (~in_quotes \/ c = quote_char)
             THEN strip_comment_loop(line, i + 1, IF in_quotes THEN "" ELSE c)
             ELSE IF ~in_quotes /\ c = "#"
             THEN SubSeq(line, 1, i - 1)
             ELSE strip_comment_loop(line, i + 1, quote_char)

\* the loop returns the line whole unless it meets a "#"
strip_inline_comment(line) ==
    IF \A i \in 1..Len(line) : line[i] # "#" THEN line
    ELSE strip_comment_loop(line, 1, "")

trim_matching_quotes(value) ==
    IF /\ Len(value) >= 2
       /\ \/ (value[1] = "\"" /\ value[Len(value)] = "\"")
          \/ (value[1] = "'" /\ value[Len(value)] = "'")
    THEN SubSeq(value, 2, Len(value) - 1)
    ELSE value

\* split_directive: [ok, key, value]
split_directive(line) ==
    LET eq == FindChar(line, {"="})
        ws == FindChar(line, {" ", "\t"})
    IN  IF eq # NPOS
        THEN LET key   == trim_ascii(SubSeq(line, 1, eq))
                 value == trim_ascii(SubSeq(line, eq + 2, Len(line)))
             IN  [ok |-> key # <<>> /\ value # <<>>, key |-> key, value |-> value]
        ELSE IF ws = NPOS
        THEN [ok |-> FALSE, key |-> <<>>, value |-> <<>>]
        ELSE LET key   == trim_ascii(SubSeq(line, 1, ws))
                 value == trim_ascii(SubSeq(line, ws + 2, Len(line)))
             IN  [ok |-> key # <<>> /\ value # <<>>, key |-> key, value |-> value]

RECURSIVE split_ws_loop(_, _, _, _)
split_ws_loop(input, i, parts, token) ==
    IF i > Len(input)
    THEN IF token # <<>> THEN Append(parts, token) ELSE parts
    ELSE IF input[i] \in {" ", "\t"}
    THEN split_ws_loop(input, i + 1,
                       IF token # <<>> THEN Append(parts, token) ELSE parts, <<>>)
    ELSE split_ws_loop(input, i + 1, parts, Append(token, input[i]))

split_nonempty_whitespace(input) == split_ws_loop(input, 1, <<>>, <<>>)

(***************************************************************************)
(* parse_int32: strtol(value, &end, 10) on a 32-bit long, accepted only    *)
(* when at least one digit was consumed and nothing follows the digits.    *)
(* Result [ok, val].                                                       *)
(***************************************************************************)
LONG_MAX == 2147483647

\* [end, mag, overflow]: the digits from index i on; mag saturates at LONG_MAX
RECURSIVE strtol_digits(_, _, _, _)
strtol_digits(s, i, acc, overflow) ==
    IF i <= Len(s) /\ IsDigit(s[i])
    THEN LET d == DigitVal(s[i]) IN
         IF overflow \/ acc > (LONG_MAX - d) \div 10
         THEN strtol_digits(s, i + 1, LONG_MAX, TRUE)
         ELSE strtol_digits(s, i + 1, acc * 10 + d, FALSE)
    ELSE [end |-> i, mag |-> acc, overflow |-> overflow]

\* variant: the characters after the digits are not looked at
parse_int32_prefix(value) ==
    IF value = <<>> THEN [ok |-> FALSE, val |-> 0]
    ELSE LET ws     == trim_start(value, 0) + 1
             neg    == ws <= Len(value) /\ value[ws] = "-"
             signed == ws <= Len(value) /\ value[ws] \in {"-", "+"}
             first  == IF signed THEN ws + 1 ELSE ws
             d      == strtol_digits(value, first, 0, FALSE)
             parsed == IF neg
                       THEN (IF d.overflow THEN -LONG_MAX - 1 ELSE -d.mag)
                       ELSE d.mag
         IN  IF d.end = first
             THEN [ok |-> FALSE, val |-> 0]
             ELSE [ok |-> TRUE, val |-> parsed]

parse_int32(value) ==
    IF value = <<>> THEN [ok |-> FALSE, val |-> 0]
    ELSE LET ws     == trim_start(value, 0) + 1
             neg    == ws <= Len(value) /\ value[ws] = "-"
             signed == ws <= Len(value) /\ value[ws] \in {"-", "+"}
             first  == IF signed THEN ws + 1 ELSE ws
             d      == strtol_digits(value, first, 0, FALSE)
             parsed == IF neg
                       THEN (IF d.overflow THEN -LONG_MAX - 1 ELSE -d.mag)
                       ELSE d.mag
         IN  IF d.end = first \/ d.end <= Len(value)
             THEN [ok |-> FALSE, val |-> 0]
             ELSE [ok |-> TRUE, val |-> parsed]

\* parse_bool_flag / parse_fontsize_token: [ok, val]
parse_bool_flag(value) ==
    LET lowered == lowercase_ascii(trim_ascii(value)) IN
    IF lowered \in {Lit.yes, Lit.true, Lit.on, Lit.one}
    THEN [ok |-> TRUE, val |-> TRUE]
    ELSE IF lowered \in {Lit.no, Lit.false, Lit.off, Lit.zero}
    THEN [ok |-> TRUE, val |-> FALSE]
    ELSE [ok |-> FALSE, val |-> FALSE]

parse_fontsize_token(value) ==
    LET lowered == lowercase_ascii(trim_ascii(value)) IN
    IF lowered \in {Lit.big, Lit.large}
    THEN [ok |-> TRUE, val |-> TRUE]
    ELSE IF lowered \in {Lit.normal, Lit.small}
    THEN [ok |-> TRUE, val |-> FALSE]
    ELSE [ok |-> FALSE, val |-> FALSE]

expand_identity_file_path(raw_path) ==
    LET path == trim_matching_quotes(trim_ascii(raw_path)) IN
    IF path = <<>> THEN path
    ELSE IF StartsWith(path, Lit.home_ssh)
    THEN Lit.kSshKeysRoot \o SubSeq(path, 8, Len(path))
    ELSE IF StartsWith(path, Lit.sd_ssh_keys) THEN path
    ELSE IF StartsWith(path, Lit.root_ssh_keys)
    THEN Lit.kSshKeysRoot \o SubSeq(path, 11, Len(path))
    ELSE IF StartsWith(path, Lit.kSshKeysRoot) THEN path
    ELSE IF StartsWith(path, Lit.sd) THEN path
    ELSE IF StartsWith(path, Lit.sdcard_rel) THEN <<"/">> \o path
    ELSE IF StartsWith(path, Lit.ssh_keys_rel)
    THEN Lit.kSshKeysRoot \o SubSeq(path, 10, Len(path))
    ELSE IF path[1] # "/" THEN Lit.kSshKeysRoot \o path
    ELSE path

(***************************************************************************)
(* SSHConfigOptions, apply_option and merge_options.                       *)
(***************************************************************************)
EmptyOptions ==
    [ has_host_name |-> FALSE, host_name |-> <<>>,
      has_user |-> FALSE, user |-> <<>>,
      has_port |-> FALSE, port |-> 22,
      has_identities_only |-> FALSE, identities_only |-> FALSE,
      identity_files |-> <<>>,
      has_connect_timeout |-> FALSE, connect_timeout |-> 0,
      has_server_alive_interval |-> FALSE, server_alive_interval |-> 0,
      has_server_alive_count_max |-> FALSE, server_alive_count_max |-> 0,
      has_strict_host_key_checking |-> FALSE, strict_host_key_checking |-> <<>>,
      has_network |-> FALSE, network |-> <<>>,
      has_fontsize |-> FALSE, fontsize_big |-> FALSE ]

apply_option(directive, raw_value, target) ==
    LET value == trim_matching_quotes(trim_ascii(raw_value)) IN
    IF directive = Lit.hostname
    THEN [target EXCEPT !.host_name = value, !.has_host_name = TRUE]
    ELSE IF directive = Lit.user
    THEN [target EXCEPT !.user = value, !.has_user = TRUE]
    ELSE IF directive = Lit.port
    THEN LET parsed_port == parse_int32(value) IN
         IF parsed_port.ok /\ parsed_port.val > 0 /\ parsed_port.val <= 65535
         THEN [target EXCEPT !.port = parsed_port.val, !.has_port = TRUE]
         ELSE target
    ELSE IF directive = Lit.identityfile
    THEN LET expanded == expand_identity_file_path(value) IN
         IF expanded # <<>>
         THEN [target EXCEPT !.identity_files = Append(@, expanded)]
         ELSE target
    ELSE IF directive = Lit.identitiesonly
    THEN LET parsed == parse_bool_flag(value) IN
         IF parsed.ok
         THEN [target EXCEPT !.identities_only = parsed.val, !.has_identities_only = TRUE]
         ELSE target
    ELSE IF directive = Lit.connecttimeout
    THEN LET timeout == parse_int32(value) IN
         IF timeout.ok /\ timeout.val >= 0
         THEN [target EXCEPT !.connect_timeout = timeout.val, !.has_connect_timeout = TRUE]
         ELSE target
    ELSE IF directive = Lit.serveraliveinterval
    THEN LET interval == parse_int32(value) IN
         IF interval.ok /\ interval.val >= 0
         THEN [target EXCEPT !.server_alive_interval = interval.val,
                             !.has_server_alive_interval = TRUE]
         ELSE target
    ELSE IF directive = Lit.serveralivecountmax
    THEN LET max_count == parse_int32(value) IN
         IF max_count.ok /\ max_count.val >= 0
         THEN [target EXCEPT !.server_alive_count_max = max_count.val,
                             !.has_server_alive_count_max = TRUE]
         ELSE target
    ELSE IF directive = Lit.stricthostkeychecking
    THEN [target EXCEPT !.strict_host_key_checking = lowercase_ascii(value),
                        !.has_strict_host_key_checking = TRUE]
    ELSE IF directive \in {Lit.network, Lit.tpagernetwork}
    THEN [target EXCEPT !.network = value, !.has_network = TRUE]
    ELSE IF directive = Lit.fontsize
    THEN LET parsed_big == parse_fontsize_token(value) IN
         IF parsed_big.ok
         THEN [target EXCEPT !.fontsize_big = parsed_big.val, !.has_fontsize = TRUE]
         ELSE target
    ELSE target

\* variant: a Port already present in the target is kept
merge_options_keep_port(source, target) ==
    [ has_host_name |-> target.has_host_name \/ source.has_host_name,
      host_name     |-> IF source.has_host_name THEN source.host_name ELSE target.host_name,
      has_user      |-> target.has_user \/ source.has_user,
      user          |-> IF source.has_user THEN source.user ELSE target.user,
      has_port      |-> target.has_port \/ source.has_port,
      port          |-> IF target.has_port THEN target.port
                        ELSE IF source.has_port THEN source.port ELSE target.port,
      has_identities_only |-> target.has_identities_only \/ source.has_identities_only,
      identities_only     |-> IF source.has_identities_only
                              THEN source.identities_only ELSE target.identities_only,
      identity_files |-> target.identity_files \o source.identity_files,
      has_connect_timeout |-> target.has_connect_timeout \/ source.has_connect_timeout,
      connect_timeout     |-> IF source.has_connect_timeout
                              THEN source.connect_timeout ELSE target.connect_timeout,
      has_server_alive_interval |-> target.has_server_alive_interval
                                    \/ source.has_server_alive_interval,
      server_alive_interval     |-> IF source.has_server_alive_interval
                                    THEN source.server_alive_interval
                                    ELSE target.server_alive_interval,
      has_server_alive_count_max |-> target.has_server_alive_count_max
                                     \/ source.has_server_alive_count_max,
      server_alive_count_max     |-> IF source.has_server_alive_count_max
                                     THEN source.server_alive_count_max
                                     ELSE target.server_alive_count_max,
      has_strict_host_key_checking |-> target.has_strict_host_key_checking
                                       \/ source.has_strict_host_key_checking,
      strict_host_key_checking     |-> IF source.has_strict_host_key_checking
                                       THEN source.strict_host_key_checking
                                       ELSE target.strict_host_key_checking,
      has_network |-> target.has_network \/ source.has_network,
      network     |-> IF source.has_network THEN source.network ELSE target.network,
      has_fontsize |-> target.has_fontsize \/ source.has_fontsize,
      fontsize_big |-> IF source.has_fontsize THEN source.fontsize_big ELSE target.fontsize_big ]

merge_options(source, target) ==
    [ has_host_name |-> target.has_host_name \/ source.has_host_name,
      host_name     |-> IF source.has_host_name THEN source.host_name ELSE target.host_name,
      has_user      |-> target.has_user \/ source.has_user,
      user          |-> IF source.has_user THEN source.user ELSE target.user,
      has_port      |-> target.has_port \/ source.has_port,
      port          |-> IF source.has_port THEN source.port ELSE target.port,
      has_identities_only |-> target.has_identities_only \/ source.has_identities_only,
      identities_only     |-> IF source.has_identities_only
                              THEN source.identities_only ELSE target.identities_only,
      identity_files |-> target.identity_files \o source.identity_files,
      has_connect_timeout |-> target.has_connect_timeout \/ source.has_connect_timeout,
      connect_timeout     |-> IF source.has_connect_timeout
                              THEN source.connect_timeout ELSE target.connect_timeout,
      has_server_alive_interval |-> target.has_server_alive_interval
                                    \/ source.has_server_alive_interval,
      server_alive_interval     |-> IF source.has_server_alive_interval
                                    THEN source.server_alive_interval
                                    ELSE target.server_alive_interval,
      has_server_alive_count_max |-> target.has_server_alive_count_max
                                     \/ source.has_server_alive_count_max,
      server_alive_count_max     |-> IF source.has_server_alive_count_max
                                     THEN source.server_alive_count_max
                                     ELSE target.server_alive_count_max,
      has_strict_host_key_checking |-> target.has_strict_host_key_checking
                                       \/ source.has_strict_host_key_checking,
      strict_host_key_checking     |-> IF source.has_strict_host_key_checking
                                       THEN source.strict_host_key_checking
                                       ELSE target.strict_host_key_checking,
      has_network |-> target.has_network \/ source.has_network,
      network     |-> IF source.has_network THEN source.network ELSE target.network,
      has_fontsize |-> target.has_fontsize \/ source.has_fontsize,
      fontsize_big |-> IF source.has_fontsize THEN source.fontsize_big ELSE target.fontsize_big ]

(***************************************************************************)
(* parse_ssh_config_file: the line loop of parse_ssh_path over the one     *)
(* host-alias file.  A parsed file is [global_options, host_blocks], a     *)
(* host block [patterns, options]; the active block is the last one.       *)
(***************************************************************************)
EmptyConfigFile == [global_options |-> EmptyOptions, host_blocks |-> <<>>]

parse_line(raw_line, parsed) ==
    LET line == trim_ascii(strip_inline_comment(raw_line)) IN
    IF line = <<>> THEN parsed
    ELSE LET kv == split_directive(line) IN
         IF ~kv.ok THEN parsed
         ELSE LET directive == lowercase_ascii(kv.key) IN
              IF directive = Lit.host
              THEN LET patterns == split_nonempty_whitespace(kv.value) IN
                   IF patterns = <<>> THEN parsed
                   ELSE [parsed EXCEPT !.host_blocks =
                            Append(@, [patterns |-> patterns, options |-> EmptyOptions])]
              ELSE IF parsed.host_blocks = <<>>
              THEN [parsed EXCEPT !.global_options = apply_option(directive, kv.value, @)]
              ELSE [parsed EXCEPT !.host_blocks[Len(parsed.host_blocks)].options =
                                      apply_option(directive, kv.value, @)]

RECURSIVE parse_lines(_, _, _)
parse_lines(lines, i, parsed) ==
    IF i > Len(lines) THEN parsed
    ELSE parse_lines(lines, i + 1, parse_line(lines[i], parsed))

\* char line_buffer[512]
LineBufferBytes == 512

\* fgets(line_buffer, sizeof(line_buffer), file) on one line of the file:
\* a line that does not fit is handed over in pieces of 511 characters
RECURSIVE fgets_chunks(_)
fgets_chunks(line) ==
    IF Len(line) < LineBufferBytes THEN <<line>>
    ELSE <<SubSeq(line, 1, LineBufferBytes - 1)>>
         \o fgets_chunks(SubSeq(line, LineBufferBytes, Len(line)))

RECURSIVE fgets_lines(_, _)
fgets_lines(lines, i) ==
    IF i > Len(lines) THEN <<>>
    ELSE fgets_chunks(lines[i]) \o fgets_lines(lines, i + 1)

parse_ssh_config_file(exists, lines) ==
    IF ~exists THEN [ok |-> FALSE, parsed |-> EmptyConfigFile]
    ELSE [ok |-> TRUE, parsed |-> parse_lines(fgets_lines(lines, 1), 1, EmptyConfigFile)]

(***************************************************************************)
(* resolve_ssh_alias                                                       *)
(***************************************************************************)
NotFound == [matched |-> FALSE]

\* variant: only the last block decides whether the alias was matched
RECURSIVE resolve_blocks_last_decides(_, _, _, _, _)
resolve_blocks_last_decides(host_blocks, alias, i, effective, matched) ==
    IF i > Len(host_blocks) THEN [effective |-> effective, matched |-> matched]
    ELSE IF host_block_matches(host_blocks[i].patterns, alias)
    THEN resolve_blocks_last_decides(host_blocks, alias, i + 1,
                                     merge_options(host_blocks[i].options, effective), TRUE)
    ELSE resolve_blocks_last_decides(host_blocks, alias, i + 1, effective, FALSE)

RECURSIVE resolve_blocks(_, _, _, _, _)
resolve_blocks(host_blocks, alias, i, effective, matched) ==
    IF i > Len(host_blocks) THEN [effective |-> effective, matched |-> matched]
    ELSE IF host_block_matches(host_blocks[i].patterns, alias)
    THEN resolve_blocks(host_blocks, alias, i + 1,
                        merge_options(host_blocks[i].options, effective), TRUE)
    ELSE resolve_blocks(host_blocks, alias, i + 1, effective, matched)

\* the ResolvedSSHConfig written from the merged options
resolved_from(alias, effective) ==
    [ matched |-> TRUE,
      alias |-> alias,
      host_name |-> IF effective.has_host_name THEN effective.host_name ELSE alias,
      user |-> IF effective.has_user THEN effective.user ELSE <<>>,
      port |-> IF effective.has_port THEN effective.port ELSE 22,
      identities_only |-> IF effective.has_identities_only
                          THEN effective.identities_only ELSE FALSE,
      identity_files |-> effective.identity_files,
      strict_host_key_checking |-> IF effective.has_strict_host_key_checking
                                   THEN effective.strict_host_key_checking ELSE Lit.ask,
      network |-> IF effective.has_network THEN effective.network ELSE <<>> ]

\* variant: the global options are left out
resolve_parsed_without_globals(alias, parsed) ==
    LET r == resolve_blocks(parsed.host_blocks, alias, 1, EmptyOptions, FALSE)
    IN  IF ~r.matched THEN NotFound ELSE resolved_from(alias, r.effective)

\* the merge over the parsed file: globals first, then every matching block
resolve_parsed(alias, parsed) ==
    LET r == resolve_blocks(parsed.host_blocks, alias, 1,
                            merge_options(parsed.global_options, EmptyOptions), FALSE)
    IN  IF ~r.matched THEN NotFound ELSE resolved_from(alias, r.effective)

resolve_ssh_alias(alias, exists, lines) ==
    IF alias = <<>> THEN NotFound
    ELSE LET file == parse_ssh_config_file(exists, lines) IN
         IF ~file.ok THEN NotFound ELSE resolve_parsed(alias, file.parsed)

(***************************************************************************)
(* Inputs.  Texts reaching wildcard_match are aliases typed at the prompt  *)
(* (non-empty, printable, no blanks); patterns are the blank-separated     *)
(* tokens of a Host line.                                                  *)
(***************************************************************************)
MaxPatLen == 3
MaxTextLen == 3
MaxPatterns == 3
MaxConfigLines == 4

PatternAlphabet == {"a", "B", "*", "?"}
TextAlphabet == {"a", "b", "A", "*"}

NonEmptySeqs(S, n) == SeqsUpTo(S, n) \ {<<>>}

PatternPool ==
    { <<"a","*">>, <<"!","a","b">>, <<"?","b">>, <<"*">>, <<"!">>, <<"!","a","?">>, <<"b">> }
MatchAliasPool == { <<"a","b">>, <<"A","b">>, <<"b">>, <<"b","a">>, <<"*","b">> }
ConfigLinePool ==
    { <<"H","o","s","t"," ","a","*">>,
      <<"h","o","s","t"," ","*"," ","!","a","b">>,
      <<"H","o","s","t"," ","b">>,
      <<"P","o","r","t"," ","2","2","2","2">>,
      <<"P","o","r","t","=","8","0">>,
      <<"U","s","e","r"," ","r","o","o","t">>,
      <<"u","s","e","r"," ","\"","n","b","\"">>,
      <<"H","o","s","t","N","a","m","e"," ","n",".","o">>,
      <<"I","d","e","n","t","i","t","i","e","s","O","n","l","y"," ","y","e","s">>,
      <<"S","t","r","i","c","t","H","o","s","t","K","e","y","C","h","e","c","k","i","n","g"," ","N","O">>,
      <<"N","e","t","w","o","r","k"," ","A","b">> }
AliasPool == { <<"A","b">>, <<"b">> }

NoCall == <<>>

InitWildcard == wm_pattern = NoCall /\ wm_text = NoCall /\ wm_result = FALSE
InitHostBlock == hb_patterns = NoCall /\ hb_alias = NoCall /\ hb_result = FALSE
InitConfig ==
    /\ config_exists = FALSE
    /\ config_lines = <<>>
    /\ res_alias = NoCall
    /\ resolved = NotFound

(***************************************************************************)
(* Actions of the configuration-resolution engine                          *)
(***************************************************************************)
WildcardMatchCall(pattern, text) ==
    /\ wm_pattern = NoCall
    /\ wm_pattern' = pattern
    /\ wm_text' = text
    /\ wm_result' = wildcard_match(pattern, text)

HostBlockMatchesCall(patterns, alias) ==
    /\ hb_patterns = NoCall
    /\ hb_patterns' = patterns
    /\ hb_alias' = alias
    /\ hb_result' = host_block_matches(patterns, alias)

\* the card owner edits the host-alias file between lookups
WriteConfigLine(line) ==
    /\ Len(config_lines) < MaxConfigLines
    /\ config_exists' = TRUE
    /\ config_lines' = Append(config_lines, line)
    /\ res_alias' = NoCall
    /\ resolved' = NotFound

\* connect_using_ssh_alias -> resolve_ssh_alias: the file is re-read on every call
ResolveAlias(alias) ==
    /\ res_alias' = alias
    /\ resolved' = resolve_ssh_alias(alias, config_exists, config_lines)
    /\ UNCHANGED <<config_exists, config_lines>>

(***************************************************************************)
(* Input line and command history (SSHTerminal).                           *)
(* A key is its ASCII code; the input line holds the characters.           *)
(***************************************************************************)
PrintableAscii ==
    <<" ","!","\"","#","$","%","&","'","(",")","*","+",",","-",".","/",
      "0","1","2","3","4","5","6","7","8","9",":",";","<","=",">","?",
      "@","A","B","C","D","E","F","G","H","I","J","K","L","M","N","O",
      "P","Q","R","S","T","U","V","W","X","Y","Z","[","\\","]","^","_",
      "(grave)","a","b","c","d","e","f","g","h","i","j","k","l","m","n","o",
      "p","q","r","s","t","u","v","w","x","y","z","{","|","}","~">>

\* codes 32..126; code 96 is written "(grave)", which the lexer cannot take literally
AsciiChar(key) == PrintableAscii[key - 31]

KEY_LF == 10
KEY_CR == 13
KEY_BS == 8
KEY_DEL == 127
KEY_BEL == 7

MaxInputLen == 2
MaxHistory == 3
TypedKeys == {97, 98}
KeySet == TypedKeys \cup {KEY_LF, KEY_CR, KEY_BS, KEY_DEL, KEY_BEL}

\* variant: the earlier occurrence is left in place
RemoveFirst_keep(seq, x) == seq

\* std::find + erase: drop the first element equal to x, if any
RemoveFirst(seq, x) ==
    IF \E i \in 1..Len(seq) : seq[i] = x
    THEN LET i == CHOOSE k \in 1..Len(seq) :
                      seq[k] = x /\ \A j \in 1..(k - 1) : seq[j] # x
         IN  SubSeq(seq, 1, i - 1) \o SubSeq(seq, i + 1, Len(seq))
    ELSE seq

\* variant: the entry after the addressed one is erased (the newest when
\* there is none after it)
EraseAt_next(seq, idx) ==
    IF idx + 1 < Len(seq)
    THEN SubSeq(seq, 1, idx + 1) \o SubSeq(seq, idx + 3, Len(seq))
    ELSE SubSeq(seq, 1, Len(seq) - 1)

\* vector::erase(begin() + idx), idx 0-based
EraseAt(seq, idx) == SubSeq(seq, 1, idx) \o SubSeq(seq, idx + 2, Len(seq))

\* variant: the index counts from the oldest entry
HistoryAt_from_oldest(hist, index) == hist[index + 1]

\* command_history[size - 1 - history_index]
HistoryAt(hist, index) == hist[Len(hist) - index]

InitHistory ==
    /\ command_history = <<>>
    /\ history_index = -1
    /\ current_input = <<>>
    /\ cursor_pos = 0
    /\ history_needs_save = FALSE
    /\ input_fault = FALSE
    /\ last_op = "construct"
    /\ op_prev_len = 0

\* variant: the navigation index is kept
SubmitLine_keep_index ==
    /\ command_history' = Append(RemoveFirst(command_history, current_input), current_input)
    /\ history_needs_save' = TRUE
    /\ current_input' = <<>>
    /\ cursor_pos' = 0
    /\ UNCHANGED <<history_index, input_fault>>

\* Enter on a non-empty line: the line is dispatched to the command surface
\* (which touches neither the line nor the history) and then recorded.
SubmitLine ==
    /\ command_history' = Append(RemoveFirst(command_history, current_input), current_input)
    /\ history_needs_save' = TRUE
    /\ current_input' = <<>>
    /\ cursor_pos' = 0
    /\ history_index' = -1
    /\ UNCHANGED input_fault

\* std::string::insert / erase throw std::out_of_range when pos > size();
\* the firmware does not catch it and stops.
InputOutOfRange ==
    /\ input_fault' = TRUE
    /\ UNCHANGED <<command_history, history_index, current_input, cursor_pos,
                   history_needs_save>>

\* update_input_display: the cursor is brought back into the text before it
\* is drawn; the value is the cursor it leaves
update_input_display(pos, input) == IF pos > Len(input) THEN Len(input) ELSE pos

\* every branch ends in update_input_display()
handle_key_input(key) ==
    /\ ~input_fault
    /\ last_op' = IF key \in {KEY_LF, KEY_CR} /\ current_input # <<>> THEN "submit" ELSE "key"
    /\ op_prev_len' = Len(command_history)
    /\ IF key \in {KEY_LF, KEY_CR}
       THEN /\ current_input # <<>> => Len(RemoveFirst(command_history, current_input)) < MaxHistory
            /\ IF current_input # <<>>
               THEN SubmitLine
               ELSE /\ cursor_pos' = update_input_display(cursor_pos, current_input)
                    /\ UNCHANGED <<command_history, history_index, current_input,
                                   history_needs_save, input_fault>>
       ELSE IF key \in {KEY_BS, KEY_DEL}
       THEN IF cursor_pos > 0 /\ current_input # <<>>
            THEN IF cursor_pos - 1 > Len(current_input)
                 THEN InputOutOfRange
                 ELSE /\ current_input' = SubSeq(current_input, 1, cursor_pos - 1)
                                          \o SubSeq(current_input, cursor_pos + 1,
                                                    Len(current_input))
                      /\ cursor_pos' = cursor_pos - 1
                      /\ UNCHANGED <<command_history, history_index, history_needs_save,
                                     input_fault>>
            ELSE /\ cursor_pos' = update_input_display(cursor_pos, current_input)
                 /\ UNCHANGED <<command_history, history_index, current_input,
                                history_needs_save, input_fault>>
       ELSE IF key >= 32 /\ key <= 126
       THEN /\ Len(current_input) < MaxInputLen
            /\ IF cursor_pos > Len(current_input)
               THEN InputOutOfRange
               ELSE /\ current_input' = SubSeq(current_input, 1, cursor_pos)
                                        \o <<AsciiChar(key)>>
                                        \o SubSeq(current_input, cursor_pos + 1,
                                                  Len(current_input))
                    /\ cursor_pos' = cursor_pos + 1
                    /\ UNCHANGED <<command_history, history_index, history_needs_save,
                                   input_fault>>
       ELSE /\ cursor_pos' = update_input_display(cursor_pos, current_input)
            /\ UNCHANGED <<command_history, history_index, current_input,
                           history_needs_save, input_fault>>

navigate_history(direction) ==
    /\ ~input_fault
    /\ last_op' = IF direction > 0 THEN "older" ELSE "newer"
    /\ op_prev_len' = Len(command_history)
    /\ UNCHANGED <<command_history, history_needs_save, input_fault>>
    /\ IF command_history = <<>>
       THEN UNCHANGED <<history_index, current_input, cursor_pos>>
       ELSE /\ IF direction > 0
               THEN IF history_index < Len(command_history) - 1
                    THEN /\ history_index' = history_index + 1
                         /\ current_input' = HistoryAt(command_history, history_index + 1)
                    ELSE UNCHANGED <<history_index, current_input>>
               ELSE IF direction < 0
               THEN IF history_index > 0
                    THEN /\ history_index' = history_index - 1
                         /\ current_input' = HistoryAt(command_history, history_index - 1)
                    ELSE IF history_index = 0
                    THEN /\ history_index' = -1
                         /\ current_input' = <<>>
                    ELSE UNCHANGED <<history_index, current_input>>
               ELSE UNCHANGED <<history_index, current_input>>
            /\ cursor_pos' = Len(current_input')

move_cursor_left ==
    /\ ~input_fault
    /\ last_op' = "cursor"
    /\ op_prev_len' = Len(command_history)
    /\ cursor_pos' = IF cursor_pos > 0
                     THEN update_input_display(cursor_pos - 1, current_input)
                     ELSE cursor_pos
    /\ UNCHANGED <<command_history, history_index, current_input, history_needs_save,
                   input_fault>>

move_cursor_right ==
    /\ ~input_fault
    /\ last_op' = "cursor"
    /\ op_prev_len' = Len(command_history)
    /\ cursor_pos' = IF cursor_pos < Len(current_input) THEN cursor_pos + 1 ELSE cursor_pos
    /\ UNCHANGED <<command_history, history_index, current_input, history_needs_save,
                   input_fault>>

move_cursor_home ==
    /\ ~input_fault
    /\ last_op' = "cursor"
    /\ op_prev_len' = Len(command_history)
    /\ cursor_pos' = 0
    /\ UNCHANGED <<command_history, history_index, current_input, history_needs_save,
                   input_fault>>

move_cursor_end ==
    /\ ~input_fault
    /\ last_op' = "cursor"
    /\ op_prev_len' = Len(command_history)
    /\ cursor_pos' = Len(current_input)
    /\ UNCHANGED <<command_history, history_index, current_input, history_needs_save,
                   input_fault>>

\* lv_timer callback, every 500 ms
cursor_blink_cb ==
    /\ ~input_fault
    /\ last_op' = "blink"
    /\ op_prev_len' = Len(command_history)
    /\ cursor_pos' = update_input_display(cursor_pos, current_input)
    /\ UNCHANGED <<command_history, history_index, current_input, history_needs_save,
                   input_fault>>

\* variant: the index is not clamped after the erase
delete_current_history_entry_no_clamp ==
    /\ ~input_fault
    /\ last_op' = "delete"
    /\ op_prev_len' = Len(command_history)
    /\ UNCHANGED <<cursor_pos, input_fault>>
    /\ IF command_history = <<>> \/ history_index < 0
       THEN UNCHANGED <<command_history, history_index, current_input, history_needs_save>>
       ELSE LET actual_index == Len(command_history) - 1 - history_index
                erased == EraseAt(command_history, actual_index)
            IN  /\ command_history' = erased
                /\ history_needs_save' = TRUE
                /\ IF erased = <<>>
                   THEN history_index' = -1 /\ current_input' = <<>>
                   ELSE /\ history_index' = history_index
                        /\ current_input' = IF history_index < Len(erased)
                                            THEN HistoryAt(erased, history_index)
                                            ELSE <<>>

delete_current_history_entry ==
    /\ ~input_fault
    /\ last_op' = "delete"
    /\ op_prev_len' = Len(command_history)
    /\ UNCHANGED <<cursor_pos, input_fault>>
    /\ IF command_history = <<>> \/ history_index < 0
       THEN UNCHANGED <<command_history, history_index, current_input, history_needs_save>>
       ELSE LET actual_index == Len(command_history) - 1 - history_index
                erased == EraseAt(command_history, actual_index)
            IN  /\ command_history' = erased
                /\ history_needs_save' = TRUE
                /\ IF erased = <<>>
                   THEN history_index' = -1 /\ current_input' = <<>>
                   ELSE IF history_index >= Len(erased)
                   THEN /\ history_index' = Len(erased) - 1
                        /\ current_input' = HistoryAt(erased, Len(erased) - 1)
                   ELSE IF actual_index < Len(erased)
                   THEN /\ history_index' = history_index
                        /\ current_input' = HistoryAt(erased, history_index)
                   ELSE history_index' = -1 /\ current_input' = <<>>

\* send_command(cmd_to_send) writes to the remote channel and changes none of
\* the variables below.
send_current_history_command ==
    /\ ~input_fault
    /\ last_op' = "send"
    /\ op_prev_len' = Len(command_history)
    /\ UNCHANGED <<cursor_pos, input_fault>>
    /\ IF command_history = <<>> \/ history_index < 0
       THEN UNCHANGED <<command_history, history_index, current_input, history_needs_save>>
       ELSE LET cmd_to_send == HistoryAt(command_history, history_index)
            IN  /\ command_history' = Append(RemoveFirst(command_history, cmd_to_send),
                                             cmd_to_send)
                /\ history_needs_save' = TRUE
                /\ current_input' = <<>>
                /\ history_index' = -1

(***************************************************************************)
(* History persistence: save_history_to_nvs / load_history_from_nvs.       *)
(* The store holds the u32 "hist_count" and the strings "hist_<i>";        *)
(* nvs_strs[i + 1] is the value under "hist_<i>".  Keys are never erased,  *)
(* so entries beyond hist_count survive from earlier, longer saves.        *)
(* Store calls are taken to succeed.                                       *)
(***************************************************************************)
HistoryCap == 100

MinOf(a, b) == IF a < b THEN a ELSE b
MaxOf(a, b) == IF a > b THEN a ELSE b

NoSave == [done |-> FALSE, hist |-> <<>>]

InitNvs ==
    /\ nvs_has_count = FALSE
    /\ nvs_hist_count = 0
    /\ nvs_strs = <<>>
    /\ saved_history = NoSave

\* [count, strs] written by save_history_to_nvs over the previous strings
save_history_to_nvs(hist, old_strs) ==
    LET start_idx == IF Len(hist) > HistoryCap THEN Len(hist) - HistoryCap ELSE 0
        history_count == Len(hist) - start_idx
    IN  [ count |-> history_count,
          strs  |-> [k \in 1..MaxOf(Len(old_strs), MinOf(history_count, HistoryCap)) |->
                        IF k <= history_count /\ k <= HistoryCap
                        THEN hist[start_idx + k]
                        ELSE old_strs[k]] ]

\* variant: every stored key is read, whatever hist_count says
load_history_from_nvs_all_keys(hist, has_count, count, strs) ==
    IF ~has_count \/ count = 0
    THEN hist
    ELSE SubSeq(strs, 1, MinOf(HistoryCap, Len(strs)))

\* the list load_history_from_nvs leaves in command_history
load_history_from_nvs(hist, has_count, count, strs) ==
    IF ~has_count \/ count = 0
    THEN hist
    ELSE SubSeq(strs, 1, MinOf(MinOf(count, HistoryCap), Len(strs)))

\* lv_timer callback, every 5 s
history_save_cb ==
    /\ ~input_fault
    /\ last_op' = "save_cb"
    /\ op_prev_len' = Len(command_history)
    /\ UNCHANGED <<command_history, history_index, current_input, cursor_pos, input_fault>>
    /\ IF history_needs_save
       THEN LET w == save_history_to_nvs(command_history, nvs_strs)
            IN  /\ history_needs_save' = FALSE
                /\ nvs_has_count' = TRUE
                /\ nvs_hist_count' = w.count
                /\ nvs_strs' = w.strs
                /\ saved_history' = [done |-> TRUE, hist |-> command_history]
       ELSE UNCHANGED <<history_needs_save, nvs_has_count, nvs_hist_count, nvs_strs,
                        saved_history>>

\* power cycle: a new SSHTerminal is constructed and loads the history
Construct ==
    /\ command_history' = load_history_from_nvs(<<>>, nvs_has_count, nvs_hist_count, nvs_strs)
    /\ history_index' = -1
    /\ current_input' = <<>>
    /\ cursor_pos' = 0
    /\ history_needs_save' = FALSE
    /\ input_fault' = FALSE
    /\ last_op' = "load"
    /\ op_prev_len' = Len(command_history)
    /\ UNCHANGED nvsVars

\* ---- histories and store contents the persistence check starts from ----
MaxSmallHist == 2
MaxOverCap == 2

RECURSIVE DigitsOf(_)
DigitsOf(n) ==
    IF n < 10 THEN <<PrintableAscii[n + 17]>>
    ELSE Append(DigitsOf(n \div 10), PrintableAscii[(n % 10) + 17])

\* n distinct commands "h<base+1>" .. "h<base+n>"
HistoryOf(n, base) == [i \in 1..n |-> <<"h">> \o DigitsOf(base + i)]

HistLenSet == (0..MaxSmallHist) \cup ((HistoryCap - 1)..(HistoryCap + MaxOverCap))

StoredCountSet == {0, 1, MaxSmallHist + 1, HistoryCap}

InitPersist ==
    /\ \E n \in HistLenSet : command_history = HistoryOf(n, 0)
    /\ history_index = -1
    /\ current_input = <<>>
    /\ cursor_pos = 0
    /\ history_needs_save = TRUE
    /\ input_fault = FALSE
    /\ last_op = "construct"
    /\ op_prev_len = 0
    /\ saved_history = NoSave
    /\ \/ /\ nvs_has_count = FALSE
          /\ nvs_hist_count = 0
          /\ nvs_strs = <<>>
       \/ \E c \in StoredCountSet, stale \in {0, MaxOverCap} :
          /\ nvs_has_count = TRUE
          /\ nvs_hist_count = c
          /\ nvs_strs = HistoryOf(c + stale, 500)

(***************************************************************************)
(* Scrollback of the terminal text area (append_text, clear_terminal).     *)
(* A byte of terminal text is written as its ordinal in the stream it      *)
(* arrived on: the bytes passed to append_text since the text area was     *)
(* last set are 1, 2, 3, ...; the bytes of the start-up logo are 0 and     *)
(* below.  No such byte is NUL: the arguments are C strings.               *)
(***************************************************************************)
kTerminalScrollbackBytes == 12288
kTerminalAppendChunkBytes == 1024

\* length of the logo text of create_terminal_screen (TPAGER_TARGET build)
kLogoBytes == 94

Tags(first, last) == [i \in 1..(last - first + 1) |-> first + i - 1]

\* what append_text leaves of the current text before it adds new_len bytes
append_text_keep_prefix(current_text, new_len) ==
    LET current_len == Len(current_text)
        projected_len == current_len + new_len
    IN  IF projected_len > kTerminalScrollbackBytes /\ current_len > 0
        THEN LET keep_len == IF new_len >= kTerminalScrollbackBytes
                             THEN 0 ELSE kTerminalScrollbackBytes - new_len
             IN  IF keep_len = 0 THEN <<>>
                 ELSE IF current_len > keep_len
                 THEN SubSeq(current_text, 1, keep_len)
                 ELSE current_text
        ELSE current_text

append_text_keep(current_text, new_len) ==
    LET current_len == Len(current_text)
        projected_len == current_len + new_len
    IN  IF projected_len > kTerminalScrollbackBytes /\ current_len > 0
        THEN LET keep_len == IF new_len >= kTerminalScrollbackBytes
                             THEN 0 ELSE kTerminalScrollbackBytes - new_len
             IN  IF keep_len = 0 THEN <<>>
                 ELSE IF current_len > keep_len
                 THEN Suffix(current_text, keep_len)
                 ELSE current_text
        ELSE current_text

\* the bytes of the argument that append_text goes on with
append_text_chunk_uncapped(text) == text

append_text_chunk(text) ==
    IF Len(text) > kTerminalAppendChunkBytes
    THEN Suffix(text, kTerminalAppendChunkBytes)
    ELSE text

\* the text area's content after append_text(text) on a created text area
append_text_join(kept, chunk) ==
    IF Len(kept) + Len(chunk) <= kTerminalScrollbackBytes THEN kept \o chunk ELSE kept

append_text_result(current_text, text) ==
    append_text_join(append_text_keep(current_text, Len(append_text_chunk(text))),
                     append_text_chunk(text))

InitScroll ==
    /\ terminal_output = FALSE
    /\ terminal_text = <<>>
    /\ appended = 0
    /\ max_append = 0
    /\ oversize_calls = 0
    /\ term_op = "construct"

\* lv_textarea_create and the logo
create_terminal_screen ==
    /\ ~terminal_output
    /\ terminal_output' = TRUE
    /\ terminal_text' = Tags(1 - kLogoBytes, 0)
    /\ appended' = 0
    /\ max_append' = 0
    /\ oversize_calls' = 0
    /\ term_op' = "create"

\* the scrollback and its counters, as append_text leaves them
append_text_on(scroll, text) ==
    IF ~scroll.output THEN scroll
    ELSE [ output |-> TRUE,
           text |-> append_text_result(scroll.text, text),
           appended |-> scroll.appended + Len(text),
           max_append |-> MaxOf(scroll.max_append, Len(text)),
           oversize_calls |-> scroll.oversize_calls
                              + (IF Len(text) > kTerminalAppendChunkBytes THEN 1 ELSE 0) ]

Scroll ==
    [ output |-> terminal_output, text |-> terminal_text, appended |-> appended,
      max_append |-> max_append, oversize_calls |-> oversize_calls ]

SetScroll(scroll) ==
    /\ terminal_output' = scroll.output
    /\ terminal_text' = scroll.text
    /\ appended' = scroll.appended
    /\ max_append' = scroll.max_append
    /\ oversize_calls' = scroll.oversize_calls

append_text(text) ==
    /\ SetScroll(append_text_on(Scroll, text))
    /\ term_op' = IF terminal_output THEN "append" ELSE "append_null"

clear_terminal ==
    IF ~terminal_output
    THEN /\ term_op' = "clear_null"
         /\ UNCHANGED <<terminal_output, terminal_text, appended, max_append, oversize_calls>>
    ELSE /\ terminal_text' = <<>>
         /\ appended' = 0
         /\ max_append' = 0
         /\ oversize_calls' = 0
              /\ term_op' = "clear"
         /\ UNCHANGED terminal_output

\* argument lengths: a flush chunk, the chunk cap, one byte more, more than the scrollback
AppendLens == {256, 1024, 1025, 13000}
MaxAppended == 13312
MaxOversize == 1

\* the next n bytes of the appended stream
AppendArg(n) == Tags(appended + 1, appended + n)

(***************************************************************************)
(* Ingress path of the receive task: strip_ansi_codes,                     *)
(* process_received_data, flush_display_buffer.                            *)
(* A received byte is written as its position in the stream of the         *)
(* channel (1, 2, 3, ...); its value is StreamByte(position).  The stream  *)
(* repeats a shell transcript holding CSI, OSC (BEL- and ST-terminated)    *)
(* and charset escapes and CR LF line ends, and holds one NUL byte.        *)
(***************************************************************************)
kTerminalIngressMaxBytes == 16384
kTerminalIngressKeepBytes == 12288
kTerminalFlushIntervalMs == 250
CHUNK_SIZE == 256

StreamPattern ==
    <<
      100, 114, 119, 120, 114, 45, 120, 114, 45, 120, 32, 50, 32, 114, 111, 111,
      116, 32, 114, 111, 111, 116, 32, 52, 48, 57, 54, 32, 74, 97, 110, 32,
      49, 32, 48, 48, 58, 48, 48, 32, 27, 91, 49, 59, 51, 52, 109, 98,
      105, 110, 27, 91, 48, 109, 13, 10, 27, 93, 48, 59, 104, 111, 115, 116,
      7, 117, 115, 101, 114, 64, 104, 111, 115, 116, 58, 126, 36, 32, 108, 115,
      32, 45, 108, 13, 10, 27, 40, 66, 116, 111, 116, 97, 108, 32, 56, 10,
      27, 41, 48, 27, 93, 50, 59, 116, 27, 92, 45, 114, 119, 45, 114, 45,
      45, 114, 45, 45, 32, 49, 32, 114, 111, 111, 116, 32, 114, 111, 111, 116,
      32, 49, 50, 32, 110, 111, 116, 101, 115, 46, 116, 120, 116, 10 >>

\* position of the one NUL byte of the stream
NulAt == 20000

StreamByte(pos) ==
    IF pos = NulAt THEN 0 ELSE StreamPattern[((pos - 1) % Len(StreamPattern)) + 1]

IsAlpha(b) == (b >= 65 /\ b <= 90) \/ (b >= 97 /\ b <= 122)

\* indices are 0-based as in the source: data[i] there is data[i + 1] here
RECURSIVE skip_csi(_, _)
skip_csi(data, i) ==
    IF i < Len(data) /\ ~IsAlpha(StreamByte(data[i + 1]))
    THEN skip_csi(data, i + 1) ELSE i

RECURSIVE skip_osc(_, _)
skip_osc(data, i) ==
    IF i >= Len(data) THEN i
    ELSE IF StreamByte(data[i + 1]) = 7 THEN i
    ELSE IF /\ StreamByte(data[i + 1]) = 27
            /\ i + 1 < Len(data)
            /\ StreamByte(data[i + 2]) = 92
    THEN i + 1
    ELSE skip_osc(data, i + 1)

\* the index the escape branch leaves in i, given the byte after the ESC
strip_escape(data, i, c) ==
    IF c = 91 THEN skip_csi(data, i + 1)
    ELSE IF c = 93 THEN skip_osc(data, i + 1)
    ELSE IF c \in {40, 41} THEN i + 1
    ELSE i

\* one pass of the for body at index i: [i, result], i as the body leaves it
strip_body(data, i, result) ==
    IF StreamByte(data[i + 1]) = 27
    THEN IF i + 1 >= Len(data)
         THEN [i |-> Len(data), result |-> result]
         ELSE [i |-> strip_escape(data, i + 1, StreamByte(data[i + 2])), result |-> result]
    ELSE IF StreamByte(data[i + 1]) = 13
    THEN [i |-> i, result |-> result]
    ELSE [i |-> i, result |-> Append(result, data[i + 1])]

StripFuel == 64

\* at most fuel passes of the for loop from state st = [i, result]
RECURSIVE strip_run(_, _, _)
strip_run(data, st, fuel) ==
    IF st.i >= Len(data) \/ fuel = 0 THEN st
    ELSE strip_run(data,
                   [strip_body(data, st.i, st.result) EXCEPT !.i = @ + 1],
                   fuel - 1)

RECURSIVE strip_loop(_, _)
strip_loop(data, st) ==
    IF st.i >= Len(data) THEN st.result
    ELSE strip_loop(data, strip_run(data, st, StripFuel))

strip_ansi_codes(data) == strip_loop(data, [i |-> 0, result |-> <<>>])

\* std::string::c_str() read as a C string: the bytes before the first NUL
c_str(chunk) ==
    LET nul == {k \in 1..Len(chunk) : StreamByte(chunk[k]) = 0}
    IN  IF nul = {} THEN chunk
        ELSE SubSeq(chunk, 1, (CHOOSE k \in nul : \A m \in nul : k <= m) - 1)

\* one pass of the while loop of flush_display_buffer with the lock taken:
\* st = [offset, scroll]
flush_chunk(buffer, st, chunk_len) ==
    [ offset |-> st.offset + chunk_len,
      scroll |-> append_text_on(st.scroll,
                                c_str(SubSeq(buffer, st.offset + 1, st.offset + chunk_len))) ]

\* the while loop of flush_display_buffer; display_lock(0) succeeds locks times
RECURSIVE flush_loop(_, _, _)
flush_loop(buffer, st, locks) ==
    IF st.offset < Len(buffer) /\ locks > 0
    THEN flush_loop(buffer,
                    flush_chunk(buffer, st, MinOf(CHUNK_SIZE, Len(buffer) - st.offset)),
                    locks - 1)
    ELSE st

\* flush_display_buffer on the given buffer: [buffer, scroll, offset, stamped]
flush_cut(buffer, r) ==
    [ buffer |-> SubSeq(buffer, r.offset + 1, Len(buffer)),
      scroll |-> r.scroll,
      offset |-> r.offset,
      stamped |-> r.offset = Len(buffer) ]

flush_buffer(buffer, received, scroll, locks) ==
    IF buffer = <<>> /\ received = 0
    THEN [buffer |-> buffer, scroll |-> scroll, offset |-> 0, stamped |-> FALSE]
    ELSE flush_cut(buffer, flush_loop(buffer, [offset |-> 0, scroll |-> scroll], locks))

\* text_buffer += cleaned and the overflow cut of process_received_data
ingress_add_keep_oldest(buffer, cleaned) ==
    IF Len(buffer) + Len(cleaned) > kTerminalIngressMaxBytes
    THEN SubSeq(buffer \o cleaned, 1, kTerminalIngressKeepBytes)
    ELSE buffer \o cleaned

ingress_add(buffer, cleaned) ==
    IF Len(buffer) + Len(cleaned) > kTerminalIngressMaxBytes
    THEN Suffix(buffer \o cleaned, kTerminalIngressKeepBytes)
    ELSE buffer \o cleaned

IdleAfter(dt) == MinOf(since_display_update + dt, kTerminalFlushIntervalMs)

InitIngress ==
    /\ text_buffer = <<>>
    /\ bytes_received = 0
    /\ since_display_update = kTerminalFlushIntervalMs
    /\ last_cleaned = <<>>
    /\ last_cut = FALSE

\* reads fill the 1023-byte buffer of the receive task; dt is the time since the
\* last step of the task; display_lock(0) succeeds locks times in a row
ReadLens == {1023}
TimeSteps == {100, 250}
LockBudgets == {0, 32, 64}
MaxReceived == 22506

\* the state flush_display_buffer leaves, dt ms after the last step
FlushInto(r, dt) ==
    /\ text_buffer' = r.buffer
    /\ SetScroll(r.scroll)
    /\ since_display_update' = IF r.stamped THEN 0 ELSE IdleAfter(dt)
    /\ term_op' = IF r.offset > 0 THEN "append" ELSE term_op

\* process_received_data after strip_ansi_codes: capped is text_buffer after
\* the overflow cut
IngestCleaned(cleaned, capped, len) ==
    /\ bytes_received' = bytes_received + len
    /\ last_cleaned' = cleaned
    /\ last_cut' = (Len(text_buffer) + Len(cleaned) > kTerminalIngressMaxBytes)
    /\ \E locks \in LockBudgets :
          LET r == flush_buffer(capped, bytes_received + len, Scroll, locks)
          IN  \E dt \in TimeSteps :
                 IF IdleAfter(dt) >= kTerminalFlushIntervalMs
                 THEN FlushInto(r, dt)
                 ELSE /\ text_buffer' = capped
                      /\ since_display_update' = IdleAfter(dt)
                      /\ UNCHANGED scrollVars

Ingest(cleaned, len) == IngestCleaned(cleaned, ingress_add(text_buffer, cleaned), len)

process_received_data(len) ==
    /\ bytes_received + len <= MaxReceived
    /\ Ingest(strip_ansi_codes(Tags(bytes_received + 1, bytes_received + len)), len)

\* the EAGAIN branch of ssh_receive_task
flush_display_buffer ==
    /\ last_cut' = FALSE
    /\ UNCHANGED <<bytes_received, last_cleaned>>
    /\ \E locks \in LockBudgets :
          LET r == flush_buffer(text_buffer, bytes_received, Scroll, locks)
          IN  \E dt \in TimeSteps : FlushInto(r, dt)

(***************************************************************************)
(* strip_ansi_codes called on its own: the input is any short sequence of  *)
(* stream bytes chosen among ESC [ ] ( ) BEL \ CR, a letter and a digit.    *)
(***************************************************************************)
\* stream positions holding ESC, '[', ']', '(', ')', BEL, '\', CR, 'm', '1'
StripBytes == {41, 42, 58, 87, 98, 65, 106, 55, 47, 43}
MaxStripLen == 5

InitStrip == strip_data = NoCall /\ strip_result = NoCall

\* one call from the idle state (strip_data = NoCall)
StripCall(data) ==
    /\ strip_data' = data
    /\ strip_result' = strip_ansi_codes(data)

(***************************************************************************)
(* Session engine: connect / connect_with_key, ssh_open_channel,           *)
(* disconnect and ssh_receive_task.                                        *)
(* The UI context runs connect and disconnect; every reader worker is a    *)
(* task of its own, so the statements of the UI context and of the workers *)
(* interleave.  The handles a connect attempt acquires carry the number of *)
(* the attempt; released counts how often each handle was released.  The   *)
(* status lines the functions write to the text area are not part of this  *)
(* state.                                                                  *)
(***************************************************************************)
NULL == 0
NoSocket == -1
MaxAttempts == 2
Handles == 1..MaxAttempts

\* what a disconnect call of the UI context has seen and done; a worker
\* record holds why the worker left its loop and whether it flushed on leaving
FreshCall == [solo |-> FALSE, was_down |-> FALSE, freed |-> 0, again |-> FALSE]

InitSession ==
    /\ ssh_connected = FALSE
    /\ ssh_socket = NoSocket
    /\ session = NULL
    /\ channel = NULL
    /\ ui = [pc |-> "idle", trace |-> <<>>, result |-> "none", call |-> FreshCall]
    /\ readers = [r \in Handles |-> [pc |-> "none", cause |-> "none", flushed |-> FALSE]]
    /\ acquired = [sock |-> {}, sess |-> {}, chan |-> {}]
    /\ released = [sock |-> [h \in Handles |-> 0],
                   sess |-> [h \in Handles |-> 0],
                   chan |-> [h \in Handles |-> 0]]
    /\ attempts = 0

DisconnectPcs == {"d_flag", "d_chan", "d_chan_null", "d_sess", "d_sess_null",
                  "d_sock", "d_sock_null", "d_end"}

ReaderInDisconnect == \E r \in Handles : readers[r].pc \in DisconnectPcs

\* a handle given to libssh2_channel_free / libssh2_session_free / close
Release(kind, h) == [released EXCEPT ![kind][h] = MinOf(@ + 1, 2)]

\* ---- disconnect, statement by statement ----
disconnect_next(pc) ==
    CASE pc = "d_flag"      -> "d_chan"
      [] pc = "d_chan"      -> IF channel # NULL THEN "d_chan_null" ELSE "d_sess"
      [] pc = "d_chan_null" -> "d_sess"
      [] pc = "d_sess"      -> IF session # NULL THEN "d_sess_null" ELSE "d_sock"
      [] pc = "d_sess_null" -> "d_sock"
      [] pc = "d_sock"      -> IF ssh_socket >= 0 THEN "d_sock_null" ELSE "d_end"
      [] pc = "d_sock_null" -> "d_end"
      [] OTHER              -> "done"

disconnect_fields_keep_channel(pc) ==
    /\ ssh_connected' = IF pc = "d_flag" THEN FALSE ELSE ssh_connected
    /\ channel' = channel
    /\ session' = IF pc = "d_sess_null" THEN NULL ELSE session
    /\ ssh_socket' = IF pc = "d_sock_null" THEN NoSocket ELSE ssh_socket

disconnect_fields(pc) ==
    /\ ssh_connected' = IF pc = "d_flag" THEN FALSE ELSE ssh_connected
    /\ channel' = IF pc = "d_chan_null" THEN NULL ELSE channel
    /\ session' = IF pc = "d_sess_null" THEN NULL ELSE session
    /\ ssh_socket' = IF pc = "d_sock_null" THEN NoSocket ELSE ssh_socket

disconnect_frees(pc) ==
    released' =
        IF pc = "d_chan" /\ channel # NULL THEN Release("chan", channel)
        ELSE IF pc = "d_sess" /\ session # NULL THEN Release("sess", session)
        ELSE IF pc = "d_sock" /\ ssh_socket >= 0 THEN Release("sock", ssh_socket)
        ELSE released

\* the handle the statement at pc releases, NULL when it releases none
disconnect_target(pc) ==
    IF pc = "d_chan" THEN channel
    ELSE IF pc = "d_sess" THEN session
    ELSE IF pc = "d_sock" /\ ssh_socket >= 0 THEN ssh_socket
    ELSE NULL

disconnect_kind(pc) ==
    IF pc = "d_chan" THEN "chan" ELSE IF pc = "d_sess" THEN "sess" ELSE "sock"

\* the record of the call after its statement at pc
disconnect_call(call, pc) ==
    IF disconnect_target(pc) = NULL THEN call
    ELSE [call EXCEPT !.freed = @ + 1,
                      !.again = @ \/ released[disconnect_kind(pc)][disconnect_target(pc)] > 0]

\* the record of a call that starts with the channel field holding chan
disconnect_entry(chan) ==
    [ solo |-> ~ReaderInDisconnect,
      was_down |-> ~ssh_connected /\ chan = NULL /\ session = NULL /\ ssh_socket = NoSocket,
      freed |-> 0, again |-> FALSE ]

NotSolo(call) == [call EXCEPT !.solo = FALSE]

\* ---- connect / connect_with_key, statement by statement ----
ConnectOrder ==
    <<"c_socket", "c_resolve", "c_sockconn", "c_session", "c_handshake",
      "c_auth", "c_channel", "c_flag", "c_spawn">>

connect_next_spawn_first(pc) ==
    CASE pc = "c_socket"    -> "c_resolve"
      [] pc = "c_resolve"   -> "c_sockconn"
      [] pc = "c_sockconn"  -> "c_session"
      [] pc = "c_session"   -> "c_handshake"
      [] pc = "c_handshake" -> "c_auth"
      [] pc = "c_auth"      -> "c_channel"
      [] pc = "c_channel"   -> "c_spawn"
      [] pc = "c_spawn"     -> "c_flag"
      [] OTHER              -> "idle"

connect_next(pc) ==
    CASE pc = "c_socket"    -> "c_resolve"
      [] pc = "c_resolve"   -> "c_sockconn"
      [] pc = "c_sockconn"  -> "c_session"
      [] pc = "c_session"   -> "c_handshake"
      [] pc = "c_handshake" -> "c_auth"
      [] pc = "c_auth"      -> "c_channel"
      [] pc = "c_channel"   -> "c_flag"
      [] pc = "c_flag"      -> "c_spawn"
      [] OTHER              -> "idle"

\* the outcomes of the statement at pc: "ok", or the way it fails
ConnectOutcomes(pc) ==
    CASE pc = "idle"      -> {"ok", "wifi", "init", "socket"}
      [] pc = "c_channel" -> {"ok", "open", "pty", "shell"}
      [] pc = "c_flag"    -> {"ok"}
      [] OTHER            -> {"ok", "fail"}

\* a statement of the UI context; with spawn it starts the worker of this
\* attempt
UiStep(next_ui, spawn) ==
    /\ ui' = next_ui
    /\ readers' = IF spawn
                  THEN [readers EXCEPT ![attempts] = [pc |-> "r_loop", cause |-> "none", flushed |-> FALSE]]
                  ELSE readers

Traced(pc) == [ui EXCEPT !.trace = Append(@, pc)]

\* connect entered from the command line: the WiFi check, libssh2_init and
\* socket()
connect(outcome) ==
    /\ ui.pc = "idle"
    /\ attempts < MaxAttempts
    /\ attempts' = attempts + 1
    /\ ssh_socket' = IF outcome = "ok" THEN attempts + 1
                     ELSE IF outcome = "socket" THEN NoSocket ELSE ssh_socket
    /\ acquired' = IF outcome = "ok"
                   THEN [acquired EXCEPT !.sock = @ \cup {attempts + 1}] ELSE acquired
    /\ UiStep([ui EXCEPT !.pc = IF outcome = "ok" THEN "c_resolve" ELSE "idle",
                         !.trace = IF outcome = "ok" THEN <<"c_socket">> ELSE <<>>,
                         !.result = IF outcome = "ok" THEN "running" ELSE "fail",
                         !.call = FreshCall],
              FALSE)
    /\ UNCHANGED <<ssh_connected, session, channel, released>>

\* resolve_host_ipv4, ::connect and libssh2_session_init: a failure closes
\* the socket and returns
connect_early(outcome) ==
    /\ ui.pc \in {"c_resolve", "c_sockconn", "c_session"}
    /\ outcome \in ConnectOutcomes(ui.pc)
    /\ IF outcome = "ok"
       THEN /\ session' = IF ui.pc = "c_session" THEN attempts ELSE session
            /\ acquired' = IF ui.pc = "c_session"
                           THEN [acquired EXCEPT !.sess = @ \cup {attempts}] ELSE acquired
            /\ UiStep([Traced(ui.pc) EXCEPT !.pc = connect_next(ui.pc)], FALSE)
            /\ UNCHANGED <<ssh_socket, released>>
       ELSE /\ released' = IF ssh_socket >= 0 THEN Release("sock", ssh_socket) ELSE released
            /\ ssh_socket' = NoSocket
            /\ UiStep([ui EXCEPT !.pc = "idle", !.trace = <<>>, !.result = "fail"], FALSE)
            /\ UNCHANGED <<session, acquired>>
    /\ UNCHANGED <<ssh_connected, channel, attempts>>

\* the handshake, ssh_authenticate / ssh_authenticate_pubkey,
\* ssh_open_channel, the connected flag and xTaskCreate: a failure calls
\* disconnect
connect_late(outcome) ==
    /\ ui.pc \in {"c_handshake", "c_auth", "c_channel", "c_flag", "c_spawn"}
    /\ outcome \in ConnectOutcomes(ui.pc)
    /\ channel' = IF ui.pc # "c_channel" THEN channel
                  ELSE IF outcome = "open" THEN NULL ELSE attempts
    /\ acquired' = IF ui.pc = "c_channel" /\ outcome # "open"
                   THEN [acquired EXCEPT !.chan = @ \cup {attempts}] ELSE acquired
    /\ ssh_connected' = IF ui.pc = "c_flag" THEN TRUE ELSE ssh_connected
    /\ UiStep(IF outcome = "ok"
              THEN [Traced(ui.pc) EXCEPT !.pc = connect_next(ui.pc),
                                         !.trace = IF connect_next(ui.pc) = "idle"
                                                   THEN <<>> ELSE @,
                                         !.result = IF connect_next(ui.pc) = "idle"
                                                    THEN "ok" ELSE @]
              ELSE [Traced(ui.pc) EXCEPT !.pc = "d_flag", !.result = "failing",
                                         !.call = disconnect_entry(channel')],
              ui.pc = "c_spawn" /\ outcome = "ok")
    /\ UNCHANGED <<ssh_socket, session, released, attempts>>

\* the command "exit" (and EXIT of the side panel): disconnect in the UI
\* context
exit_command ==
    /\ ui.pc = "idle"
    /\ UiStep([ui EXCEPT !.pc = "d_flag", !.result = "exiting", !.call = disconnect_entry(channel)],
              FALSE)
    /\ UNCHANGED <<ssh_connected, ssh_socket, session, channel, acquired, released, attempts>>

\* one statement of disconnect in the UI context
ui_disconnect ==
    /\ ui.pc \in DisconnectPcs
    /\ disconnect_fields(ui.pc)
    /\ disconnect_frees(ui.pc)
    /\ UiStep([ui EXCEPT !.pc = IF disconnect_next(ui.pc) = "done" THEN "idle"
                                ELSE disconnect_next(ui.pc),
                         !.result = IF disconnect_next(ui.pc) # "done" THEN @
                                    ELSE IF @ = "failing" THEN "fail" ELSE "exit",
                         !.trace = IF disconnect_next(ui.pc) = "done" THEN <<>> ELSE @,
                         !.call = IF disconnect_next(ui.pc) = "done" THEN FreshCall
                                  ELSE disconnect_call(@, ui.pc)],
              FALSE)
    /\ UNCHANGED <<acquired, attempts>>

\* ---- ssh_receive_task ----
\* a statement of worker r; one that writes the session fields ends solo in
\* the disconnect call of the UI context
ReaderStep(r, next_reader, writes) ==
    /\ readers' = [readers EXCEPT ![r] = next_reader]
    /\ ui' = IF writes /\ ui.pc \in DisconnectPcs THEN [ui EXCEPT !.call = NotSolo(@)] ELSE ui

\* a channel handle handed to libssh2_channel_read / libssh2_channel_eof
\* after it was released
UsesReleased == channel # NULL /\ released.chan[channel] > 0

\* while (terminal->ssh_connected && terminal->channel)
reader_loop(r) ==
    /\ readers[r].pc = "r_loop"
    /\ ReaderStep(r, IF ssh_connected /\ channel # NULL
                     THEN [readers[r] EXCEPT !.pc = "r_read"]
                     ELSE [readers[r] EXCEPT !.pc = "d_flag", !.cause = "stopped"],
                  FALSE)
    /\ UNCHANGED <<ssh_connected, ssh_socket, session, channel, acquired, released, attempts>>

\* the session fields and counters a statement of the reader leaves alone
ReaderKeeps ==
    UNCHANGED <<ssh_connected, ssh_socket, session, channel, acquired, released, attempts>>

ReadOutcomes == {"data", "again", "zero", "error"}

\* rc = libssh2_channel_read(terminal->channel, ...) and the branch on rc;
\* the library answers a NULL channel with an error
reader_read(r, outcome, len) ==
    /\ readers[r].pc = "r_read"
    /\ channel = NULL => outcome = "error"
    /\ ReaderStep(r, IF outcome = "error"
                     THEN [readers[r] EXCEPT !.pc = "d_flag", !.cause = "error"]
                     ELSE [readers[r] EXCEPT !.pc = "r_eof"],
                  FALSE)
    /\ IF outcome = "data" THEN process_received_data(len)
       ELSE IF outcome = "again" THEN flush_display_buffer
       ELSE UNCHANGED <<scrollVars, ingressVars>>
    /\ ReaderKeeps

\* if (libssh2_channel_eof(terminal->channel)): flush and leave the loop;
\* the library answers a NULL channel with a nonzero error code
reader_eof(r, eof) ==
    /\ readers[r].pc = "r_eof"
    /\ channel = NULL => eof
    /\ ReaderStep(r, IF eof
                     THEN [readers[r] EXCEPT !.pc = "d_flag", !.cause = "eof", !.flushed = TRUE]
                     ELSE [readers[r] EXCEPT !.pc = "r_loop"],
                  FALSE)
    /\ IF eof THEN flush_display_buffer ELSE UNCHANGED <<scrollVars, ingressVars>>
    /\ ReaderKeeps

\* one statement of terminal->disconnect() at the end of the task, and
\* vTaskDelete after the last
reader_disconnect(r) ==
    /\ readers[r].pc \in DisconnectPcs
    /\ disconnect_fields(readers[r].pc)
    /\ disconnect_frees(readers[r].pc)
    /\ ReaderStep(r, [readers[r] EXCEPT
                        !.pc = IF disconnect_next(readers[r].pc) = "done" THEN "dead"
                               ELSE disconnect_next(readers[r].pc),
                        !.cause = IF disconnect_next(readers[r].pc) = "done" THEN "none"
                                  ELSE @,
                        !.flushed = IF disconnect_next(readers[r].pc) = "done" THEN FALSE
                                    ELSE @],
                  TRUE)
    /\ UNCHANGED <<acquired, attempts>>

\* a session that connect has just set up: the state in which the worker
\* of the first attempt starts
InitConnected ==
    /\ ssh_connected = TRUE
    /\ ssh_socket = 1
    /\ session = 1
    /\ channel = 1
    /\ ui = [pc |-> "idle", trace |-> <<>>, result |-> "ok", call |-> FreshCall]
    /\ readers = [r \in Handles |->
                     [pc |-> IF r = 1 THEN "r_loop" ELSE "none", cause |-> "none",
                      flushed |-> FALSE]]
    /\ acquired = [sock |-> {1}, sess |-> {1}, chan |-> {1}]
    /\ released = [sock |-> [h \in Handles |-> 0],
                   sess |-> [h \in Handles |-> 0],
                   chan |-> [h \in Handles |-> 0]]
    /\ attempts = 1

(***************************************************************************)
(* send_command: the command and a newline written to the channel, with a  *)
(* budget of retries for writes that return LIBSSH2_ERROR_EAGAIN.  One     *)
(* step is the entry of the call or one pass of its while loop; wire holds *)
(* the bytes the channel accepted.                                         *)
(***************************************************************************)
MAX_RETRIES == 20

InitSend ==
    send = [pc |-> "idle", cmd |-> <<>>, full_cmd |-> <<>>, nwritten |-> 0,
            retry_count |-> 0, only_again |-> TRUE, error |-> FALSE,
                        wire |-> <<>>]

\* std::string(cmd) + "\n"
full_cmd_no_newline(cmd) == cmd

full_cmd(cmd) == cmd \o <<KEY_LF>>

\* the condition of the while loop
send_pending(nwritten, retry_count, full) ==
    nwritten < Len(full) /\ retry_count < MAX_RETRIES

\* entry of send_command: nothing without a channel, else the counter reset
\* and the loop
send_command(cmd) ==
    /\ send.pc \in {"idle", "done"}
    /\ IF channel = NULL
       THEN /\ send' = [pc |-> "done", cmd |-> cmd, full_cmd |-> <<>>, nwritten |-> 0,
                        retry_count |-> 0, only_again |-> TRUE, error |-> FALSE,
                        wire |-> <<>>]
            /\ UNCHANGED bytes_received
       ELSE /\ send' = [pc |-> "loop", cmd |-> cmd, full_cmd |-> full_cmd(cmd), nwritten |-> 0,
                        retry_count |-> 0, only_again |-> TRUE, error |-> FALSE,
                        wire |-> <<>>]
            /\ bytes_received' = 0
    /\ UNCHANGED <<text_buffer, since_display_update, last_cleaned, last_cut>>

\* the value libssh2_channel_write returns for "try again", and another of
\* its negative error codes
LIBSSH2_ERROR_EAGAIN == -37
WriteError == -1

\* the values libssh2_channel_write can return for count bytes: try again,
\* an error, or the number of bytes it took
WriteOutcomes(count) == {LIBSSH2_ERROR_EAGAIN, WriteError} \cup (0..count)

\* one pass of the while loop, the loop left when its condition fails or on
\* an error
send_write(n) ==
    /\ send.pc = "loop"
    /\ n \in WriteOutcomes(Len(send.full_cmd) - send.nwritten)
    /\ send' =
         IF n = LIBSSH2_ERROR_EAGAIN
         THEN [send EXCEPT !.retry_count = @ + 1,
                           !.pc = IF send_pending(send.nwritten, send.retry_count + 1,
                                                  send.full_cmd)
                                  THEN "loop" ELSE "done"]
         ELSE IF n < 0
         THEN [send EXCEPT !.only_again = FALSE, !.error = TRUE, !.pc = "done"]
         ELSE [send EXCEPT !.nwritten = @ + n, !.retry_count = 0,
                           !.only_again = FALSE,
                           !.wire = @ \o SubSeq(send.full_cmd, send.nwritten + 1,
                                                send.nwritten + n),
                           !.pc = IF send_pending(send.nwritten + n, 0, send.full_cmd)
                                  THEN "loop" ELSE "done"]
    /\ UNCHANGED ingressVars

\* the commands sent: "ls" and "pwd"
SendCommands == { <<108, 115>>, <<112, 119, 100>> }

(***************************************************************************)
(* connect_with_alias_identities: the identity files of a resolved alias   *)
(* tried one after the other with connect_with_key.  One step is the entry *)
(* of the call, one pass of the for loop up to its connect_with_key call   *)
(* or its continue, the return of connect_with_key, or the report at the   *)
(* end.  log holds, per identity the loop has taken, where its key came    *)
(* from and what became of it; report is the error line written at the end.*)
(***************************************************************************)
MaxIdentities == 3
MaxCandidates == 2
IdentityFiles == {"id_rsa", "id_ed25519"}

InitAlias ==
    alias_call = [pc |-> "idle", identity_files |-> <<>>, next |-> 1, log |-> <<>>,
             attempted_identity |-> FALSE, connected |-> FALSE, report |-> "none"]

\* where the loop body finds the key of an identity: a loaded key, the
\* first readable path of identity_path_candidates, the path of
\* resolve_identity_file_on_sd, or nowhere
alias_key_source(loaded, readable, on_sd) ==
    IF loaded THEN "memory"
    ELSE IF readable # {} THEN "file"
    ELSE IF on_sd THEN "sd"
    ELSE "none"

\* the identity the for loop is at
alias_identity == alias_call.identity_files[alias_call.next]

\* entry: the loop starts at the first identity file
alias_connect(identity_files) ==
    /\ alias_call.pc = "idle"
    /\ ui.pc = "idle"
    /\ alias_call' = [pc |-> "a_loop", identity_files |-> identity_files, next |-> 1,
                 log |-> <<>>, attempted_identity |-> FALSE, connected |-> FALSE,
                 report |-> "none"]

\* "Skipping: unable to read key file" and continue
alias_skip_ends(al) ==
    [al EXCEPT !.log = Append(@, [identity |-> al.identity_files[al.next],
                                  source |-> "none", result |-> "skipped"]),
               !.attempted_identity = TRUE,
               !.pc = "a_return"]

alias_skip(al) ==
    [al EXCEPT !.log = Append(@, [identity |-> al.identity_files[al.next],
                                  source |-> "none", result |-> "skipped"]),
               !.attempted_identity = TRUE,
               !.next = @ + 1]

\* a pass of the loop that finds no key
alias_skip_identity(loaded, readable, on_sd) ==
    /\ alias_call.pc = "a_loop"
    /\ alias_call.next <= Len(alias_call.identity_files)
    /\ alias_key_source(loaded, readable, on_sd) = "none"
    /\ alias_call' = alias_skip(alias_call)

\* a pass of the loop that finds a key and calls connect_with_key
alias_try_identity(loaded, readable, on_sd, outcome) ==
    /\ alias_call.pc = "a_loop"
    /\ alias_call.next <= Len(alias_call.identity_files)
    /\ alias_key_source(loaded, readable, on_sd) # "none"
    /\ alias_call' = [alias_call EXCEPT !.log = Append(@, [identity |-> alias_identity,
                                                 source |-> alias_key_source(loaded, readable, on_sd),
                                                 result |-> "connecting"]),
                              !.attempted_identity = TRUE,
                              !.pc = "a_connect"]
    /\ connect(outcome)

\* connect_with_key has returned: break on ESP_OK, else the next identity
alias_connect_result ==
    /\ alias_call.pc = "a_connect"
    /\ ui.pc = "idle"
    /\ alias_call' = IF ui.result = "ok"
                THEN [alias_call EXCEPT !.log[Len(alias_call.log)].result = "ok",
                                   !.connected = TRUE,
                                   !.pc = "a_return"]
                ELSE [alias_call EXCEPT !.log[Len(alias_call.log)].result = "failed",
                                   !.next = @ + 1,
                                   !.pc = "a_loop"]

\* after the loop: the error line when no identity connected, and return
alias_return ==
    /\ \/ alias_call.pc = "a_return"
       \/ alias_call.pc = "a_loop" /\ alias_call.next > Len(alias_call.identity_files)
    /\ alias_call' = [alias_call EXCEPT !.pc = "done",
                              !.report = IF alias_call.connected THEN "none"
                                         ELSE IF ~alias_call.attempted_identity
                                         THEN "no_identity_files"
                                         ELSE "all_failed"]

\* the statements of connect_with_key run inside the alias connect
AliasInConnect == alias_call.pc = "a_connect" /\ ui.pc # "idle"

(***************************************************************************)
(* find_loaded_key_with_fallback: the loaded key for an identity path.     *)
(* loaded_keys is the std::map of lower-cased file names to key contents;  *)
(* a key content is written as a positive number.  Result [key, name]:     *)
(* key is NULL when the function returns nullptr, name is the caller's     *)
(* resolved_key_name.                                                      *)
(***************************************************************************)
IsAlnum(c) ==
    \/ IsDigit(c)
    \/ \E k \in 1..26 : c = UpperLetters[k] \/ c = LowerLetters[k]

\* std::string::rfind / find_last_of: 0-based index of the last occurrence
RFindChar(s, chars) ==
    IF \E i \in 1..Len(s) : s[i] \in chars
    THEN (CHOOSE i \in 1..Len(s) : s[i] \in chars /\ \A j \in (i + 1)..Len(s) : s[j] \notin chars) - 1
    ELSE NPOS

base_name(path) ==
    IF RFindChar(path, {"/"}) = NPOS THEN path
    ELSE SubSeq(path, RFindChar(path, {"/"}) + 2, Len(path))

\* the lower-cased base name up to its last dot, and from its last dot
lower_stem(name) ==
    IF RFindChar(lowercase_ascii(base_name(name)), {"."}) = NPOS
    THEN lowercase_ascii(base_name(name))
    ELSE SubSeq(lowercase_ascii(base_name(name)), 1,
                RFindChar(lowercase_ascii(base_name(name)), {"."}))

lower_ext(name) ==
    IF RFindChar(lowercase_ascii(base_name(name)), {"."}) = NPOS
    THEN <<>>
    ELSE SubSeq(lowercase_ascii(base_name(name)),
                RFindChar(lowercase_ascii(base_name(name)), {"."}) + 1,
                Len(base_name(name)))

normalize_key_stem(filename) == SelectSeq(lower_stem(filename), IsAlnum)

short_name_prefix(name) ==
    IF FindChar(lower_stem(name), {"~"}) = NPOS \/ FindChar(lower_stem(name), {"~"}) = 0
    THEN <<>>
    ELSE SelectSeq(SubSeq(lower_stem(name), 1, FindChar(lower_stem(name), {"~"})), IsAlnum)

\* parse_short_83_name: [ok, prefix, ext]
parse_short_83_name(name) ==
    LET stem  == lower_stem(name)
        tilde == FindChar(stem, {"~"})
    IN  IF \/ stem = <<>>
           \/ tilde = NPOS \/ tilde = 0 \/ tilde + 1 >= Len(stem)
           \/ \E i \in (tilde + 2)..Len(stem) : ~IsDigit(stem[i])
        THEN [ok |-> FALSE, prefix |-> <<>>, ext |-> <<>>]
        ELSE [ok |-> TRUE, prefix |-> SubSeq(stem, 1, tilde), ext |-> lower_ext(name)]

\* this_match of the first loop
stem_match(candidate, target_stem) ==
    /\ normalize_key_stem(candidate) # <<>>
    /\ target_stem # <<>>
    /\ \/ normalize_key_stem(candidate) = target_stem
       \/ StartsWith(target_stem, normalize_key_stem(candidate))
       \/ StartsWith(normalize_key_stem(candidate), target_stem)
       \/ /\ short_name_prefix(candidate) # <<>>
          /\ StartsWith(target_stem, short_name_prefix(candidate))

\* the candidates the second loop counts
short_match(candidate, short) ==
    /\ ~(short.ext # <<>> /\ lower_ext(candidate) # short.ext)
    /\ StartsWith(lower_stem(candidate), short.prefix)

NoKey(desired_name) == [key |-> NULL, name |-> desired_name]

KeyNamed(loaded_keys, name) == [key |-> loaded_keys[name], name |-> name]

TheOne(set) == CHOOSE x \in set : TRUE

\* if (key_names.size() == 1) return the key, else nullptr
sole_key_fallback_none(loaded_keys, desired_name) == NoKey(desired_name)

sole_key_fallback(loaded_keys, desired_name) ==
    IF Cardinality(DOMAIN loaded_keys) = 1
    THEN KeyNamed(loaded_keys, TheOne(DOMAIN loaded_keys))
    ELSE NoKey(desired_name)

\* the second loop, entered when the desired name is an 8.3 short name
short_83_match(loaded_keys, desired_name, short) ==
    IF short.ok /\ Cardinality({c \in DOMAIN loaded_keys : short_match(c, short)}) = 1
    THEN KeyNamed(loaded_keys, TheOne({c \in DOMAIN loaded_keys : short_match(c, short)}))
    ELSE sole_key_fallback(loaded_keys, desired_name)

find_loaded_key(loaded_keys, desired_name, matched) ==
    IF lowercase_ascii(desired_name) \in DOMAIN loaded_keys
    THEN [key |-> loaded_keys[lowercase_ascii(desired_name)], name |-> desired_name]
    ELSE IF DOMAIN loaded_keys = {} THEN NoKey(desired_name)
    ELSE IF Cardinality(matched) = 1 THEN KeyNamed(loaded_keys, TheOne(matched))
    ELSE short_83_match(loaded_keys, desired_name, parse_short_83_name(desired_name))

find_loaded_key_with_fallback(loaded_keys, identity_path) ==
    find_loaded_key(loaded_keys, base_name(identity_path),
                    {c \in DOMAIN loaded_keys :
                        stem_match(c, normalize_key_stem(base_name(identity_path)))})

\* file names of keys as load_key_from_memory stores them, each with its
\* content
KeyFiles ==
    << <<"p", "r", "o", "d", "k", "e", "y", ".", "p", "e", "m">>, <<"p", "r", "o", "d", "~", "1", ".", "p", "e", "m">>, <<"p", "r", "o", "_", "d", "~", "2", ".", "p", "e", "m">>, <<"i", "d", "_", "r", "s", "a", ".", "p", "e", "m">>,
       <<"b", "a", "c", "k", "u", "p", ".", "p", "e", "m">>, <<"p", "r", "o", "d", "~", "4", "p", "e", "m">> >>

\* identity paths of a resolved alias
IdentityPaths ==
    { <<"i", "d", "_", "r", "s", "a">>, <<"~", "/", ".", "s", "s", "h", "/", "P", "R", "O", "D", "K", "E", "Y", ".", "P", "E", "M">>, <<"p", "r", "o", "_", "d", "~", "3", ".", "p", "e", "m">>, <<"p", "r", "o", "d", "u", "c", "t", "i", "o", "n", ".", "p", "e", "m">>,
      <<"/", "s", "d", "c", "a", "r", "d", "/", "s", "s", "h", "_", "k", "e", "y", "s", "/", "p", "r", "o", "d">>, <<"z", "z", "z">>, <<"P", "R", "O", "D", "~", "7", ".", "P", "E", "M">> }

MaxLoadedKeys == 3

\* the key maps with at most MaxLoadedKeys of the key files
LoadedKeyMaps ==
    { [n \in {KeyFiles[i] : i \in chosen} |-> CHOOSE i \in chosen : KeyFiles[i] = n] :
        chosen \in {c \in SUBSET (1..Len(KeyFiles)) : Cardinality(c) <= MaxLoadedKeys} }

InitKey == key_call = NoCall

FindLoadedKeyCall(loaded_keys, identity_path) ==
    key_call' = [loaded_keys |-> loaded_keys, identity_path |-> identity_path,
                 result |-> find_loaded_key_with_fallback(loaded_keys, identity_path)]

(***************************************************************************)
(* WiFi profiles: parse_wifi_config_file over the lines of the one profile *)
(* file, find_wifi_profile and auto_connect_wifi_profiles.  A profile is   *)
(* [network_name, ssid, password, auto_connect, has_auto_connect,          *)
(* file_order]; init_wifi succeeds on the SSIDs in reach.                  *)
(***************************************************************************)
WifiLit ==
    [ network |-> <<"n", "e", "t", "w", "o", "r", "k">>, ssid |-> <<"s", "s", "i", "d">>, password |-> <<"p", "a", "s", "s", "w", "o", "r", "d">>,
      autoconnect |-> <<"a", "u", "t", "o", "c", "o", "n", "n", "e", "c", "t">> ]

EmptyProfile(order) ==
    [ network_name |-> <<>>, ssid |-> <<>>, password |-> <<>>,
      auto_connect |-> FALSE, has_auto_connect |-> FALSE, file_order |-> order ]

maybe_push_wifi_profile(candidate, profiles) ==
    IF candidate.network_name = <<>> /\ candidate.ssid = <<>> THEN profiles
    ELSE Append(profiles, candidate)

\* the directives of a profile other than network
wifi_apply(directive, cleaned_value, current) ==
    IF directive = WifiLit.ssid THEN [current EXCEPT !.ssid = cleaned_value]
    ELSE IF directive = WifiLit.password THEN [current EXCEPT !.password = cleaned_value]
    ELSE IF directive = WifiLit.autoconnect /\ parse_bool_flag(cleaned_value).ok
    THEN [current EXCEPT !.auto_connect = parse_bool_flag(cleaned_value).val,
                         !.has_auto_connect = TRUE]
    ELSE current

\* a profile opened by a directive outside any profile
wifi_implicit(st) ==
    IF st.in_profile THEN st
    ELSE [st EXCEPT !.current = EmptyProfile(st.order), !.order = @ + 1, !.in_profile = TRUE]

\* one pass of the line loop: st = [profiles, current, in_profile, order]
wifi_directive(directive, cleaned_value, st) ==
    IF directive = WifiLit.network
    THEN [ profiles |-> IF st.in_profile
                        THEN maybe_push_wifi_profile(st.current, st.profiles)
                        ELSE st.profiles,
           current |-> [EmptyProfile(st.order) EXCEPT !.network_name = cleaned_value],
           in_profile |-> TRUE,
           order |-> st.order + 1 ]
    ELSE [wifi_implicit(st) EXCEPT !.current = wifi_apply(directive, cleaned_value, @)]

\* a line that split_directive has split: kv = [ok, key, value]
wifi_split(kv, st) ==
    IF ~kv.ok THEN st
    ELSE wifi_directive(lowercase_ascii(kv.key),
                        trim_matching_quotes(trim_ascii(kv.value)), st)

wifi_trimmed(line, st) ==
    IF line = <<>> THEN st ELSE wifi_split(split_directive(line), st)

wifi_line(raw_line, st) == wifi_trimmed(trim_ascii(strip_inline_comment(raw_line)), st)

RECURSIVE wifi_lines(_, _, _)
wifi_lines(lines, i, st) ==
    IF i > Len(lines) THEN st
    ELSE wifi_lines(lines, i + 1, wifi_line(lines[i], st))

wifi_close(st) ==
    IF st.in_profile THEN maybe_push_wifi_profile(st.current, st.profiles) ELSE st.profiles

\* the profiles of an opened file
parse_wifi_config_file(lines) ==
    wifi_close(wifi_lines(lines, 1,
                          [profiles |-> <<>>, current |-> EmptyProfile(0),
                           in_profile |-> FALSE, order |-> 0]))

\* find_wifi_profile: the index of the profile returned, 0 for nullptr
FirstIndex(set) == IF set = {} THEN 0 ELSE CHOOSE i \in set : \A j \in set : i <= j

find_wifi_profile(profiles, query) ==
    IF query = <<>> THEN 0
    ELSE IF \E i \in 1..Len(profiles) :
               profiles[i].network_name # <<>>
               /\ lowercase_ascii(profiles[i].network_name) = query
    THEN FirstIndex({i \in 1..Len(profiles) :
               profiles[i].network_name # <<>>
               /\ lowercase_ascii(profiles[i].network_name) = query})
    ELSE FirstIndex({i \in 1..Len(profiles) :
               profiles[i].ssid # <<>> /\ lowercase_ascii(profiles[i].ssid) = query})

\* connect_wifi_profile: ESP_FAIL without an SSID, else what init_wifi says
connect_wifi_profile(profile, reach) == profile.ssid # <<>> /\ profile.ssid \in reach

\* the profiles the loop of auto_connect_wifi_profiles does not skip
wifi_auto_takes_any(profile) == profile.has_auto_connect

wifi_auto_takes(profile) == profile.has_auto_connect /\ profile.auto_connect

\* the loop from profile i on: [attempts, connected], attempts the indices
\* of the profiles handed to connect_wifi_profile
RECURSIVE wifi_auto_loop(_, _, _, _)
wifi_auto_loop(profiles, reach, i, tried) ==
    IF i > Len(profiles) THEN [attempts |-> tried, connected |-> FALSE]
    ELSE IF ~wifi_auto_takes(profiles[i])
    THEN wifi_auto_loop(profiles, reach, i + 1, tried)
    ELSE IF connect_wifi_profile(profiles[i], reach)
    THEN [attempts |-> Append(tried, i), connected |-> TRUE]
    ELSE wifi_auto_loop(profiles, reach, i + 1, Append(tried, i))

auto_connect_wifi_profiles(profiles, reach) == wifi_auto_loop(profiles, reach, 1, <<>>)

WifiLinePool ==
    { <<"N", "e", "t", "w", "o", "r", "k", " ", "H", "o", "m", "e">>, <<"S", "S", "I", "D", " ", "H", "o", "m", "e", "A", "P">>, <<"A", "u", "t", "o", "C", "o", "n", "n", "e", "c", "t", " ", "y", "e", "s">>, <<"S", "S", "I", "D", " ", "G", "u", "e", "s", "t">>,
      <<"a", "u", "t", "o", "c", "o", "n", "n", "e", "c", "t", " ", "=", " ", "o", "f", "f">>, <<"s", "s", "i", "d", " ", "\"", "H", "o", "m", "e", "\"">>, <<"N", "e", "t", "w", "o", "r", "k", " ", "\"", "\"">>, <<"S", "S", "I", "D", " ", "\"", " ", "C", "a", "f", "e", " ", "\"">> }

WifiSsids == { <<"H", "o", "m", "e", "A", "P">>, <<"G", "u", "e", "s", "t">>, <<"H", "o", "m", "e">> }

WifiQueries == { <<"h", "o", "m", "e">>, <<" ", "H", "O", "M", "E", "A", "P", " ">>, <<"G", "u", "e", "s", "t">>, <<>>, <<" ", "C", "a", "f", "e", " ">> }

MaxWifiLines == 4

InitWifi == wifi_call = NoCall

\* the command "wifi auto" (and the boot-time auto connect)
WifiAutoOn(lines, profiles, reach) ==
    wifi_call' = [ op |-> "auto", lines |-> lines, reach |-> reach, query |-> <<>>,
                   profiles |-> profiles,
                   result |-> auto_connect_wifi_profiles(profiles, reach) ]

WifiAuto(lines, reach) == WifiAutoOn(lines, parse_wifi_config_file(lines), reach)

\* connect_wifi_profile_by_name_or_ssid up to its lookup
WifiLookupOn(lines, profiles, name_or_ssid) ==
    wifi_call' = [ op |-> "lookup", lines |-> lines, reach |-> {}, query |-> name_or_ssid,
                   profiles |-> profiles,
                   result |-> find_wifi_profile(profiles,
                                                lowercase_ascii(trim_ascii(name_or_ssid))) ]

WifiLookup(lines, name_or_ssid) ==
    WifiLookupOn(lines, parse_wifi_config_file(lines), name_or_ssid)

(***************************************************************************)
(* Enter: the command surface of handle_key_input.  The line is compared   *)
(* with the commands in the order of the else-if chain; command_surface is *)
(* the list of the branches that run.  What a branch does to the session,  *)
(* the network and the scrollback is the subject of the sections above;    *)
(* no branch writes the input line, the cursor or the history.             *)
(***************************************************************************)
\* the chain with "exit" compared as a prefix
command_surface_exit_prefix(line, connected) ==
    IF StartsWith(line, <<"c", "o", "n", "n", "e", "c", "t", " ">>) THEN <<"connect">>
    ELSE IF StartsWith(line, <<"w", "i", "f", "i">>) THEN <<"wifi">>
    ELSE IF line = <<"s", "d", "c", "h", "e", "c", "k">> THEN <<"sdcheck">>
    ELSE IF StartsWith(line, <<"s", "e", "r", "i", "a", "l", "r", "x">>) THEN <<"serialrx">>
    ELSE IF StartsWith(line, <<"s", "s", "h", " ">>) THEN <<"ssh">>
    ELSE IF StartsWith(line, <<"s", "s", "h", "k", "e", "y", " ">>) THEN <<"sshkey">>
    ELSE IF line = <<"d", "i", "s", "c", "o", "n", "n", "e", "c", "t">> THEN <<"disconnect">>
    ELSE IF StartsWith(line, <<"f", "o", "n", "t", "s", "i", "z", "e">>) THEN <<"fontsize">>
    ELSE IF StartsWith(line, <<"e", "x", "i", "t">>) THEN <<"exit">>
    ELSE IF line = <<"c", "l", "e", "a", "r">> THEN <<"clear">>
    ELSE IF line = <<"h", "e", "l", "p">> THEN <<"help">>
    ELSE IF line = <<"s", "h", "u", "t", "d", "o", "w", "n">> \/ line = <<"p", "o", "w", "e", "r", "o", "f", "f">> THEN <<"shutdown">>
    ELSE IF line = <<"h", "o", "s", "t", "s">> THEN <<"hosts">>
    ELSE IF line = <<"n", "e", "t", "i", "n", "f", "o">> THEN <<"netinfo">>
    ELSE IF connected THEN <<"send_command">>
    ELSE <<"unknown">>

command_surface(line, connected) ==
    IF StartsWith(line, <<"c", "o", "n", "n", "e", "c", "t", " ">>) THEN <<"connect">>
    ELSE IF StartsWith(line, <<"w", "i", "f", "i">>) THEN <<"wifi">>
    ELSE IF line = <<"s", "d", "c", "h", "e", "c", "k">> THEN <<"sdcheck">>
    ELSE IF StartsWith(line, <<"s", "e", "r", "i", "a", "l", "r", "x">>) THEN <<"serialrx">>
    ELSE IF StartsWith(line, <<"s", "s", "h", " ">>) THEN <<"ssh">>
    ELSE IF StartsWith(line, <<"s", "s", "h", "k", "e", "y", " ">>) THEN <<"sshkey">>
    ELSE IF line = <<"d", "i", "s", "c", "o", "n", "n", "e", "c", "t">> THEN <<"disconnect">>
    ELSE IF StartsWith(line, <<"f", "o", "n", "t", "s", "i", "z", "e">>) THEN <<"fontsize">>
    ELSE IF line = <<"e", "x", "i", "t">> THEN <<"exit">>
    ELSE IF line = <<"c", "l", "e", "a", "r">> THEN <<"clear">>
    ELSE IF line = <<"h", "e", "l", "p">> THEN <<"help">>
    ELSE IF line = <<"s", "h", "u", "t", "d", "o", "w", "n">> \/ line = <<"p", "o", "w", "e", "r", "o", "f", "f">> THEN <<"shutdown">>
    ELSE IF line = <<"h", "o", "s", "t", "s">> THEN <<"hosts">>
    ELSE IF line = <<"n", "e", "t", "i", "n", "f", "o">> THEN <<"netinfo">>
    ELSE IF connected THEN <<"send_command">>
    ELSE <<"unknown">>

\* lines a user can have typed when Enter is pressed
EnterLines ==
    { <<>>, <<"c", "o", "n", "n", "e", "c", "t", " ", "h", "o", "m", "e">>, <<"w", "i", "f", "i">>, <<"w", "i", "f", "i", " ", "a", "u", "t", "o">>, <<"s", "d", "c", "h", "e", "c", "k">>, <<"s", "e", "r", "i", "a", "l", "r", "x">>,
      <<"s", "s", "h", " ", "p", "i">>, <<"s", "s", "h", "k", "e", "y", " ", "h", " ", "2", "2", " ", "u", " ", "k", ".", "p", "e", "m">>, <<"d", "i", "s", "c", "o", "n", "n", "e", "c", "t">>, <<"f", "o", "n", "t", "s", "i", "z", "e", " ", "b", "i", "g">>, <<"e", "x", "i", "t">>,
      <<"c", "l", "e", "a", "r">>, <<"h", "e", "l", "p">>, <<"s", "h", "u", "t", "d", "o", "w", "n">>, <<"p", "o", "w", "e", "r", "o", "f", "f">>, <<"h", "o", "s", "t", "s">>, <<"n", "e", "t", "i", "n", "f", "o">>,
      <<"l", "s">>, <<"e", "x", "i", "t", " ">> }

EnterHistories == { <<>>, << <<"h", "e", "l", "p">> >>, << <<"l", "s">>, <<"c", "l", "e", "a", "r">> >> }

InitEnter == enter_call = NoCall

\* the most bytes one write of a submitted line takes
MaxSubmitWrite == 6

\* the input state at the moment Enter is pressed
InitEnterHistory ==
    /\ command_history \in EnterHistories
    /\ history_index \in -1..(Len(command_history) - 1)
    /\ current_input \in EnterLines
    /\ cursor_pos \in {0, Len(current_input)}
    /\ history_needs_save = FALSE
    /\ input_fault = FALSE
    /\ last_op = "construct"
    /\ op_prev_len = 0

\* handle_key_input('\n' or '\r') with the session up or down
EnterKey(key, connected) ==
    /\ handle_key_input(key)
    /\ enter_call' = [line |-> current_input,
                      connected |-> connected,
                      surface |-> IF current_input = <<>> THEN <<>>
                                  ELSE command_surface(current_input, connected),
                      history |-> command_history,
                      index |-> history_index]

\* current_input.c_str() as the bytes send_command gets
InputBytes(line) ==
    [i \in 1..Len(line) |-> CHOOSE k \in 32..126 : AsciiChar(k) = line[i]]

\* handle_key_input('\n' or '\r') with the session as it is: the last branch
\* of the chain hands the line to send_command
submit_line(key) ==
    /\ send.pc \in {"idle", "done"}
    /\ EnterKey(key, ssh_connected)
    /\ IF current_input # <<>>
          /\ command_surface(current_input, ssh_connected) = <<"send_command">>
       THEN send_command(InputBytes(current_input))
       ELSE UNCHANGED <<send, ingressVars>>

(***************************************************************************)
(* The host-alias file with identity files and with lines the parser       *)
(* passes over.  LongUnknownKeyLine is one line of the file, longer than   *)
(* line_buffer.                                                            *)
(***************************************************************************)
MaxParseLines == 4

Filler(n) == [i \in 1..n |-> "x"]

LongUnknownKeyLine == <<"F", "o", "o", " ">> \o Filler(LineBufferBytes - 5) \o <<"P", "o", "r", "t", " ", "9", "9">>

UnknownKeyLines == { <<"F", "o", "o", " ", "b", "a", "r">>, LongUnknownKeyLine }
NoValueLines == { <<"P", "o", "r", "t">> }
InvalidValueLines == { <<"P", "o", "r", "t", " ", "0">>, <<"I", "d", "e", "n", "t", "i", "t", "y", "F", "i", "l", "e", " ", "\"", "\"">> }

ParseLinePool ==
    { <<"H", "o", "s", "t", " ", "a", "*">>, <<"H", "o", "s", "t", " ", "b">>, <<"i", "d", "e", "n", "t", "i", "t", "y", "f", "i", "l", "e", "=", "k", "1">>, <<"I", "d", "e", "n", "t", "i", "t", "y", "F", "i", "l", "e", " ", "~", "/", ".", "s", "s", "h", "/", "k", "2">>,
      <<"P", "o", "r", "t", " ", "2", "2", "2", "2">> }
    \cup UnknownKeyLines \cup NoValueLines \cup InvalidValueLines

InitParse == parse_call = NoCall

\* Port lines of a host-alias file, with values inside and outside 1..65535
\* and values that are no decimal integer
MaxPortLines == 3

PortLinePool ==
    { <<"H", "o", "s", "t", " ", "a", "*">>, <<"H", "o", "s", "t", " ", "b">>, <<"P", "o", "r", "t", " ", "2", "2", "2", "2">>, <<"p", "o", "r", "t", "=", "6", "5", "5", "3", "5">>, <<"P", "o", "r", "t", " ", "+", "8", "0">>,
      <<"P", "o", "r", "t", " ", "0">>, <<"P", "o", "r", "t", " ", "6", "5", "5", "3", "6">>, <<"P", "o", "r", "t", " ", "-", "2", "2">>, <<"P", "o", "r", "t", " ", "2", "2", "x">>, <<"P", "o", "r", "t", " ", "0", "x", "1", "6">>,
      <<"P", "o", "r", "t", " ", "4", "2", "9", "4", "9", "6", "7", "3", "1", "8">> }

\* the card owner edits the host-alias file between lookups
WritePortLine(line) ==
    /\ Len(config_lines) < MaxPortLines
    /\ WriteConfigLine(line)

\* the card owner edits the host-alias file between commands
WriteParseLine(line) ==
    /\ Len(config_lines) < MaxParseLines
    /\ WriteConfigLine(line)
    /\ parse_call' = NoCall

\* the hosts command: parse_ssh_config_file on its own
ParseHosts ==
    /\ config_exists
    /\ parse_call' = [lines |-> config_lines,
                      file |-> parse_ssh_config_file(config_exists, config_lines)]
    /\ UNCHANGED cfgVars

(***************************************************************************)
(* Session allocation in connect / connect_with_key, statement by          *)
(* statement: libssh2_session_init, on failure the low-memory recovery and *)
(* the second libssh2_session_init.  In the session engine above this is   *)
(* the one statement c_session, whose outcome is the outcome of the whole.  *)
(* alloc counts what the attempt has done; display_lock(50) is granted or  *)
(* not.                                                                    *)
(***************************************************************************)
AllocIdle ==
    [pc |-> "idle", fn |-> "none", allocations |-> 0, locks |-> 0, granted |-> FALSE,
     clears |-> 0, yields |-> 0, result |-> "none"]

InitAlloc == alloc = AllocIdle

WarnBytes == 62
ErrorBytes == 36

\* the attempt has come to "Socket connected": session = libssh2_session_init()
alloc_first(fn, ok) ==
    /\ alloc.pc = "idle"
    /\ alloc.result = "none"
    /\ session' = IF ok THEN attempts ELSE NULL
    /\ acquired' = IF ok THEN [acquired EXCEPT !.sess = @ \cup {attempts}] ELSE acquired
    /\ alloc' = [alloc EXCEPT !.pc = IF ok THEN "a_check" ELSE "a_warn", !.fn = fn,
                              !.allocations = 1]
    /\ UNCHANGED <<ssh_connected, ssh_socket, channel, ui, readers, released, attempts>>
    /\ UNCHANGED scrollVars

\* append_text("WARN: session alloc failed, ...")
alloc_warn ==
    /\ alloc.pc = "a_warn"
    /\ append_text(AppendArg(WarnBytes))
    /\ alloc' = [alloc EXCEPT !.pc = "a_lock"]
    /\ UNCHANGED sessVars

\* if (display_lock(50)) { if (terminal_output) lv_textarea_set_text(terminal_output, ""); display_unlock(); }
alloc_clear(granted) ==
    /\ alloc.pc = "a_lock"
    /\ IF granted /\ terminal_output
       THEN /\ terminal_text' = <<>>
            /\ appended' = 0
            /\ max_append' = 0
            /\ oversize_calls' = 0
            /\ term_op' = "clear"
            /\ UNCHANGED terminal_output
       ELSE UNCHANGED scrollVars
    /\ alloc' = [alloc EXCEPT !.pc = "a_delay", !.locks = @ + 1, !.granted = granted,
                              !.clears = IF granted /\ terminal_output THEN @ + 1 ELSE @]
    /\ UNCHANGED sessVars

\* vTaskDelay(pdMS_TO_TICKS(20))
alloc_delay ==
    /\ alloc.pc = "a_delay"
    /\ alloc' = [alloc EXCEPT !.pc = "a_retry", !.yields = @ + 1]
    /\ UNCHANGED sessVars
    /\ UNCHANGED scrollVars

\* session = libssh2_session_init(), the second time
alloc_second(ok) ==
    /\ alloc.pc = "a_retry"
    /\ session' = IF ok THEN attempts ELSE NULL
    /\ acquired' = IF ok THEN [acquired EXCEPT !.sess = @ \cup {attempts}] ELSE acquired
    /\ alloc' = [alloc EXCEPT !.pc = "a_check", !.allocations = @ + 1]
    /\ UNCHANGED <<ssh_connected, ssh_socket, channel, ui, readers, released, attempts>>
    /\ UNCHANGED scrollVars

\* if (!session): the error line; else on to the handshake
alloc_check ==
    /\ alloc.pc = "a_check"
    /\ IF session = NULL
       THEN /\ append_text(AppendArg(ErrorBytes))
            /\ alloc' = [alloc EXCEPT !.pc = "a_close"]
       ELSE /\ alloc' = [alloc EXCEPT !.pc = "done", !.result = "ok"]
            /\ UNCHANGED scrollVars
    /\ UNCHANGED sessVars

\* variant: the socket is left open
alloc_close_keep_socket ==
    /\ alloc.pc = "a_close"
    /\ alloc' = [alloc EXCEPT !.pc = "done", !.result = "fail"]
    /\ UNCHANGED sessVars
    /\ UNCHANGED scrollVars

\* close(ssh_socket); ssh_socket = -1; libssh2_exit(); return ESP_FAIL
alloc_close ==
    /\ alloc.pc = "a_close"
    /\ released' = IF ssh_socket >= 0 THEN Release("sock", ssh_socket) ELSE released
    /\ ssh_socket' = NoSocket
    /\ alloc' = [alloc EXCEPT !.pc = "done", !.result = "fail"]
    /\ UNCHANGED <<ssh_connected, session, channel, ui, readers, acquired, attempts>>
    /\ UNCHANGED scrollVars

\* scrollback at the time of the attempt: the logo alone, or with text after it
AllocTextLens == {0, 256, 1024}

\* the attempt h of a session that is down has connected its socket
InitAllocSession ==
    \E h \in Handles :
        /\ ssh_connected = FALSE
        /\ ssh_socket = h
        /\ session = NULL
        /\ channel = NULL
        /\ ui = [pc |-> "c_session", trace |-> <<"c_socket", "c_resolve", "c_sockconn">>,
                 result |-> "running", call |-> FreshCall]
        /\ readers = [r \in Handles |-> [pc |-> "none", cause |-> "none", flushed |-> FALSE]]
        /\ acquired = [sock |-> {h}, sess |-> {}, chan |-> {}]
        /\ released = [sock |-> [k \in Handles |-> 0],
                       sess |-> [k \in Handles |-> 0],
                       chan |-> [k \in Handles |-> 0]]
        /\ attempts = h

InitAllocScroll ==
    \E n \in AllocTextLens :
        /\ terminal_output = TRUE
        /\ terminal_text = Tags(1 - kLogoBytes, n)
        /\ appended = n
        /\ max_append = n
        /\ oversize_calls = 0
        /\ term_op = IF n = 0 THEN "create" ELSE "append"

(***************************************************************************)
(* The dirty mark and the save timer.  history_save_timer is NULL after    *)
(* construction, runs once create_terminal_screen has made it, and is      *)
(* deleted by the destructor.  Keys reach the terminal only after the      *)
(* screen exists.  nvs_open, nvs_set_u32 and nvs_set_str report failure to *)
(* save_history_to_nvs, which logs it and goes on or returns; res says     *)
(* which of the calls of one save succeed.                                 *)
(***************************************************************************)
InitDirty == history_save_timer = "NULL"

AllStored == [open |-> TRUE, count |-> TRUE, str |-> TRUE]

NvsResults ==
    { AllStored,
      [open |-> FALSE, count |-> TRUE, str |-> TRUE],
      [open |-> TRUE, count |-> FALSE, str |-> TRUE],
      [open |-> TRUE, count |-> TRUE, str |-> FALSE] }

\* the store as save_history_to_nvs leaves it when its calls end as res says
save_history_to_nvs_on(hist, has_count, count, strs, res) ==
    IF ~res.open \/ ~res.count
    THEN [has_count |-> has_count, count |-> count, strs |-> strs]
    ELSE [has_count |-> TRUE,
          count |-> save_history_to_nvs(hist, strs).count,
          strs |-> IF res.str THEN save_history_to_nvs(hist, strs).strs ELSE strs]

\* history_save_cb with the results of the store calls
history_save_cb_nvs(res) ==
    /\ ~input_fault
    /\ last_op' = "save_cb"
    /\ op_prev_len' = Len(command_history)
    /\ UNCHANGED <<command_history, history_index, current_input, cursor_pos, input_fault>>
    /\ UNCHANGED history_save_timer
    /\ IF history_needs_save
       THEN /\ history_needs_save' = FALSE
            /\ nvs_has_count' = save_history_to_nvs_on(command_history, nvs_has_count,
                                    nvs_hist_count, nvs_strs, res).has_count
            /\ nvs_hist_count' = save_history_to_nvs_on(command_history, nvs_has_count,
                                    nvs_hist_count, nvs_strs, res).count
            /\ nvs_strs' = save_history_to_nvs_on(command_history, nvs_has_count,
                                    nvs_hist_count, nvs_strs, res).strs
            /\ saved_history' = [done |-> TRUE, hist |-> command_history]
       ELSE UNCHANGED <<history_needs_save, nvs_has_count, nvs_hist_count, nvs_strs,
                        saved_history>>

\* ~SSHTerminal: lv_timer_del and, when the mark is set, one last save
destroy_terminal(res) ==
    /\ last_op' = "teardown"
    /\ op_prev_len' = Len(command_history)
    /\ history_save_timer' = "deleted"
    /\ UNCHANGED <<command_history, history_index, current_input, cursor_pos,
                   history_needs_save, input_fault>>
    /\ IF history_save_timer = "running" /\ history_needs_save
       THEN /\ nvs_has_count' = save_history_to_nvs_on(command_history, nvs_has_count,
                                    nvs_hist_count, nvs_strs, res).has_count
            /\ nvs_hist_count' = save_history_to_nvs_on(command_history, nvs_has_count,
                                    nvs_hist_count, nvs_strs, res).count
            /\ nvs_strs' = save_history_to_nvs_on(command_history, nvs_has_count,
                                    nvs_hist_count, nvs_strs, res).strs
            /\ saved_history' = [done |-> TRUE, hist |-> command_history]
       ELSE UNCHANGED nvsVars

\* Enter on a non-empty line, whatever the length of the history
handle_enter ==
    /\ ~input_fault
    /\ current_input # <<>>
    /\ last_op' = "submit"
    /\ op_prev_len' = Len(command_history)
    /\ SubmitLine

\* ---- the stores a terminal is constructed on, and the bounds of the walk: the
\* one command typed is DirtyKey, navigation goes MaxDirtyIndex entries back, and
\* only typed entries are deleted ----
DirtyStores == {0, MaxSmallHist, HistoryCap}
MaxDirtyIndex == 1
DirtyKey == 97

\* the constructor: load_history_from_nvs on the store, the mark clear
InitDirtyHistory ==
    /\ \E c \in DirtyStores :
          /\ nvs_has_count = (c > 0)
          /\ nvs_hist_count = c
          /\ nvs_strs = HistoryOf(c, 500)
          /\ command_history = load_history_from_nvs(<<>>, c > 0, c, HistoryOf(c, 500))
    /\ saved_history = NoSave
    /\ history_index = -1
    /\ current_input = <<>>
    /\ cursor_pos = 0
    /\ history_needs_save = FALSE
    /\ input_fault = FALSE
    /\ last_op = "construct"
    /\ op_prev_len = 0

(***************************************************************************)
(* Serial side-load: serial_receive_to_sd_file, line by line.              *)
(* Numbers wider than the checker's integers are kept as 16-bit limbs,     *)
(* least significant first: four limbs for unsigned long long, two for     *)
(* unsigned long, uint32_t and size_t (32 bits on the target).             *)
(***************************************************************************)
LimbBase == 2^16

Zero64 == <<0, 0, 0, 0>>
Zero32 == <<0, 0>>

\* limbs * m + carry, limb by limb: [limbs, carry]
RECURSIVE limbs_muladd(_, _, _, _)
limbs_muladd(limbs, i, m, carry) ==
    IF i > Len(limbs) THEN [limbs |-> limbs, carry |-> carry]
    ELSE limbs_muladd([limbs EXCEPT ![i] = (limbs[i] * m + carry) % LimbBase], i + 1, m,
                      (limbs[i] * m + carry) \div LimbBase)

\* the negation of an unsigned value: 2^width - value
limbs_negate(limbs) ==
    limbs_muladd([i \in 1..Len(limbs) |-> LimbBase - 1 - limbs[i]], 1, 1, 1).limbs

\* hex_nibble: the value of a hexadecimal digit, -1 for any other character
hex_nibble(c) ==
    IF IsDigit(c) THEN DigitVal(c)
    ELSE IF c \in {"a", "A"} THEN 10
    ELSE IF c \in {"b", "B"} THEN 11
    ELSE IF c \in {"c", "C"} THEN 12
    ELSE IF c \in {"d", "D"} THEN 13
    ELSE IF c \in {"e", "E"} THEN 14
    ELSE IF c \in {"f", "F"} THEN 15
    ELSE -1

\* strtoull / strtoul digits in the given base from index i on:
\* [end, limbs, overflow]
RECURSIVE strtoul_digits(_, _, _, _, _)
strtoul_digits(s, i, base, limbs, overflow) ==
    IF i <= Len(s) /\ hex_nibble(s[i]) >= 0 /\ hex_nibble(s[i]) < base
    THEN strtoul_digits(s, i + 1, base,
                        limbs_muladd(limbs, 1, base, hex_nibble(s[i])).limbs,
                        overflow \/ limbs_muladd(limbs, 1, base, hex_nibble(s[i])).carry > 0)
    ELSE [end |-> i, limbs |-> limbs, overflow |-> overflow]

\* strtoull(text, &end, base) on zero: leading white space, an optional sign,
\* for base 16 an optional 0x before a digit, then digits; [end, limbs, overflow, any]
strtoul_from(text, ws, base, zero) ==
    LET neg    == ws <= Len(text) /\ text[ws] = "-"
        signed == ws <= Len(text) /\ text[ws] \in {"-", "+"}
        sign   == IF signed THEN ws + 1 ELSE ws
        prefix == /\ base = 16
                  /\ sign + 2 <= Len(text)
                  /\ text[sign] = "0"
                  /\ text[sign + 1] \in {"x", "X"}
                  /\ hex_nibble(text[sign + 2]) >= 0
        first  == IF prefix THEN sign + 2 ELSE sign
        d      == strtoul_digits(text, first, base, zero, FALSE)
    IN  [end |-> d.end, any |-> d.end > first, overflow |-> d.overflow,
         limbs |-> IF neg THEN limbs_negate(d.limbs) ELSE d.limbs]

\* parse_u64_decimal: [ok, val]
parse_u64_decimal(text) ==
    IF text = <<>> THEN [ok |-> FALSE, val |-> Zero64]
    ELSE LET r == strtoul_from(text, trim_start(text, 0) + 1, 10, Zero64) IN
         IF r.overflow \/ ~r.any \/ r.end <= Len(text)
         THEN [ok |-> FALSE, val |-> Zero64]
         ELSE [ok |-> TRUE, val |-> r.limbs]

\* parse_u32_hex: [ok, val]; unsigned long has 32 bits, so a value above
\* 0xFFFFFFFF is an overflow of strtoul
parse_u32_hex(text) ==
    IF text = <<>> THEN [ok |-> FALSE, val |-> Zero32]
    ELSE LET r == strtoul_from(text, trim_start(text, 0) + 1, 16, Zero32) IN
         IF r.overflow \/ ~r.any \/ r.end <= Len(text)
         THEN [ok |-> FALSE, val |-> Zero32]
         ELSE [ok |-> TRUE, val |-> r.limbs]

\* static_cast<size_t>(expected_size_u64)
size_t_of(val) == <<val[1], val[2]>>

\* n < size and n > size for a count n below LimbBase
SizeAbove(size, n) == size[2] > 0 \/ n < size[1]
SizeBelow(size, n) == size[2] = 0 /\ n > size[1]

\* decode_hex_payload: [ok, bytes]
RECURSIVE decode_hex_loop(_, _, _)
decode_hex_loop(hex, i, bytes) ==
    IF i > Len(hex) THEN [ok |-> TRUE, bytes |-> bytes]
    ELSE IF hex_nibble(hex[i]) < 0 \/ hex_nibble(hex[i + 1]) < 0
    THEN [ok |-> FALSE, bytes |-> bytes]
    ELSE decode_hex_loop(hex, i + 2, Append(bytes, hex_nibble(hex[i]) * 16 + hex_nibble(hex[i + 1])))

decode_hex_payload(hex) ==
    IF Len(hex) % 2 # 0 THEN [ok |-> FALSE, bytes |-> <<>>]
    ELSE decode_hex_loop(hex, 1, <<>>)

\* ---- esp_crc32_le: the reflected CRC-32 (polynomial 0xEDB88320), the
\* running value complemented on the way in and on the way out ----
Crc32Poly == <<33568, 60856>>

RECURSIVE xor_bits(_, _, _)
xor_bits(a, b, n) ==
    IF n = 0 THEN 0 ELSE ((a + b) % 2) + 2 * xor_bits(a \div 2, b \div 2, n - 1)

Xor32(x, y) == <<xor_bits(x[1], y[1], 16), xor_bits(x[2], y[2], 16)>>

Not32(x) == <<LimbBase - 1 - x[1], LimbBase - 1 - x[2]>>

Shr1(x) == <<(x[1] \div 2) + (x[2] % 2) * (LimbBase \div 2), x[2] \div 2>>

RECURSIVE crc_rounds(_, _)
crc_rounds(c, n) ==
    IF n = 0 THEN c
    ELSE crc_rounds(IF c[1] % 2 = 1 THEN Xor32(Shr1(c), Crc32Poly) ELSE Shr1(c), n - 1)

RECURSIVE crc_bytes(_, _, _)
crc_bytes(c, buf, i) ==
    IF i > Len(buf) THEN c
    ELSE crc_bytes(crc_rounds(Xor32(c, <<buf[i], 0>>), 8), buf, i + 1)

esp_crc32_le(crc, buf) == Not32(crc_bytes(Not32(crc), buf, 1))

\* ---- the transfer ----
\* serial_read_line_with_timeout returned false: no line within the time
NoLine == <<"\n">>

RxIdle ==
    [pc |-> "idle", file |-> "absent", header |-> <<>>, expected_size |-> Zero32,
     expected_crc |-> Zero32, received |-> 0, bytes |-> <<>>, crc |-> Zero32,
     ended |-> FALSE, result |-> "none", msg |-> "none"]

InitRx == rx = RxIdle

\* return false after the message; the paths that call std::remove first
\* leave no file
rx_fail(r, msg, removed) ==
    [r EXCEPT !.pc = "done", !.result = "false", !.msg = msg,
              !.file = IF removed THEN "absent" ELSE @]

\* the checks before the wait for BEGIN; fopen(target_path, "wb") makes the file
serial_rx_open(opened) ==
    /\ rx.pc = "idle"
    /\ rx' = IF opened
             THEN [rx EXCEPT !.pc = "begin", !.file = "present"]
             ELSE [rx EXCEPT !.pc = "done", !.result = "false", !.msg = "not opened"]

rx_begin_parts(r, begin_parts) ==
    IF Len(begin_parts) < 3 \/ lowercase_ascii(begin_parts[1]) # <<"b", "e", "g", "i", "n">>
    THEN rx_fail(r, "invalid BEGIN header", FALSE)
    ELSE IF ~parse_u64_decimal(begin_parts[2]).ok \/ ~parse_u32_hex(begin_parts[3]).ok
    THEN rx_fail(r, "invalid BEGIN arguments", FALSE)
    ELSE [r EXCEPT !.pc = "data", !.header = begin_parts,
                   !.expected_size = size_t_of(parse_u64_decimal(begin_parts[2]).val),
                   !.expected_crc = parse_u32_hex(begin_parts[3]).val]

\* the first line, within 30 s
serial_rx_begin(line) ==
    /\ rx.pc = "begin"
    /\ rx' = IF line = NoLine
             THEN rx_fail(rx, "timeout waiting for BEGIN", FALSE)
             ELSE rx_begin_parts(rx, split_nonempty_whitespace(line))

rx_data_chunk(r, chunk, wrote) ==
    IF chunk = <<>> THEN r
    ELSE IF SizeBelow(r.expected_size, r.received + Len(chunk))
    THEN rx_fail(r, "DATA exceeds expected size", TRUE)
    ELSE IF ~wrote
    THEN rx_fail(r, "write failure", TRUE)
    ELSE [r EXCEPT !.crc = esp_crc32_le(r.crc, chunk), !.received = @ + Len(chunk),
                   !.bytes = @ \o chunk]

rx_data_parts(r, parts, wrote) ==
    IF parts = <<>> THEN r
    ELSE IF lowercase_ascii(parts[1]) = <<"a", "b", "o", "r", "t">>
    THEN rx_fail(r, "aborted by host", TRUE)
    ELSE IF lowercase_ascii(parts[1]) # <<"d", "a", "t", "a">> \/ Len(parts) < 2
    THEN r
    ELSE IF ~decode_hex_payload(parts[2]).ok
    THEN rx_fail(r, "invalid DATA hex payload", TRUE)
    ELSE rx_data_chunk(r, decode_hex_payload(parts[2]).bytes, wrote)

\* one turn of while (received < expected_size); wrote: fwrite took the chunk
serial_rx_data(line, wrote) ==
    /\ rx.pc = "data"
    /\ SizeAbove(rx.expected_size, rx.received)
    /\ rx' = IF line = NoLine
             THEN rx_fail(rx, "timeout during transfer", TRUE)
             ELSE rx_data_parts(rx, split_nonempty_whitespace(line), wrote)

rx_end_parts(r, end_parts) ==
    IF end_parts = <<>> \/ lowercase_ascii(end_parts[1]) # <<"e", "n", "d">>
    THEN rx_fail(r, "invalid END marker", TRUE)
    ELSE IF r.crc # r.expected_crc
    THEN rx_fail([r EXCEPT !.ended = TRUE], "CRC mismatch, file removed", TRUE)
    ELSE [r EXCEPT !.pc = "done", !.ended = TRUE, !.result = "true",
                   !.msg = "transfer complete"]

\* after the loop: the line within 5 s, fflush, fclose and the CRC check
serial_rx_end(line) ==
    /\ rx.pc = "data"
    /\ ~SizeAbove(rx.expected_size, rx.received)
    /\ rx' = IF line = NoLine
             THEN rx_fail(rx, "missing END marker", TRUE)
             ELSE rx_end_parts(rx, split_nonempty_whitespace(line))

\* ---- the lines the host sends ----
RxBeginLines ==
    { <<"B", "E", "G", "I", "N", " ", "1", " ", "d", "2", "0", "2", "e", "f", "8", "d">>, <<"b", "e", "g", "i", "n", " ", "2", " ", "0", "x", "4", "1", "D", "9", "1", "2", "F", "F">>, <<"B", "E", "G", "I", "N", " ", "2", " ", "3", "6", "d", "e", "2", "2", "6", "9">>,
      <<"B", "E", "G", "I", "N", " ", "0", " ", "0">>, <<"B", "E", "G", "I", "N", " ", "4", "2", "9", "4", "9", "6", "7", "2", "9", "6", " ", "0">>, <<"B", "E", "G", "I", "N", " ", "4", "2", "9", "4", "9", "6", "7", "2", "9", "7", " ", "d", "2", "0", "2", "e", "f", "8", "d">>,
      <<"B", "E", "G", "I", "N", " ", "1", " ", "d", "2", "0", "2", "e", "f", "8", "e">>, <<"B", "E", "G", "I", "N", " ", "1">>, <<"B", "E", "G", "I", "N", " ", "x", " ", "0">>, <<"B", "E", "G", "I", "N", " ", "1", " ", "1", "0", "0", "0", "0", "0", "0", "0", "0">>,
      <<"H", "E", "L", "L", "O", " ", "1", " ", "0">>, <<>> }

RxDataLines ==
    { <<"D", "A", "T", "A", " ", "0", "0">>, <<"d", "a", "t", "a", " ", "0", "1">>, <<"D", "A", "T", "A", " ", "f", "f">>, <<"D", "A", "T", "A", " ", "0", "0", "0", "0">>, <<"D", "A", "T", "A", " ", "0">>, <<"D", "A", "T", "A", " ", "z", "z">>, <<"D", "A", "T", "A">>,
      <<"A", "B", "O", "R", "T">>, <<"E", "N", "D">>, <<"n", "o", "t", "e", " ", "0", "0">>, <<>> }

RxEndLines == { <<"E", "N", "D">>, <<"e", "n", "d", " ", "o", "f", " ", "f", "i", "l", "e">>, <<"E", "N", "D", "I", "N", "G">>, <<"D", "A", "T", "A", " ", "0", "0">>, <<>> }


(***************************************************************************)
(* Rotary encoder (tpager_encoder.cpp).  ab is the pair of line levels as  *)
(* read_ab packs it: (a << 1) | b.  enc holds the Encoder fields, the      *)
(* EncoderEvent and the return value of the last encoder_poll, and what    *)
(* the polls so far add up to: steps is the sum of the transition steps,   *)
(* net the sum of the reported deltas, polls the number of calls.          *)
(***************************************************************************)
MaxPolls == 9

kLut == << 0, -1, 1, 0,
           1, 0, 0, -1,
           -1, 0, 0, 1,
           0, 1, -1, 0 >>

\* variant: the transition 00 -> 11 counts as a step forward
transition_step_counts_diagonal(prev_ab, curr_ab) ==
    IF prev_ab = 0 /\ curr_ab = 3 THEN 1 ELSE kLut[(prev_ab * 4 + curr_ab) + 1]

\* kLut[(prev_ab << 2) | curr_ab]
transition_step(prev_ab, curr_ab) == kLut[(prev_ab * 4 + curr_ab) + 1]

NoEvent ==
    [delta |-> 0, transitions |-> 0, moved |-> FALSE,
     button_changed |-> FALSE, button_pressed |-> FALSE]

ESP_OK == 0
ESP_ERR_NOT_FOUND == 261

InitEncoder ==
    enc = [ready |-> FALSE, prev_ab |-> 0, phase_acc |-> 0, has_button |-> FALSE,
           prev_button_level |-> 1, event |-> NoEvent, ret |-> ESP_OK,
           steps |-> 0, net |-> 0, polls |-> 0]

\* encoder_init with the levels the pins have at that moment
encoder_init(ab, has_button, button_level) ==
    enc' = [ready |-> TRUE, prev_ab |-> ab, phase_acc |-> 0, has_button |-> has_button,
            prev_button_level |-> IF has_button THEN button_level ELSE 1,
            event |-> NoEvent, ret |-> ESP_OK, steps |-> 0, net |-> 0, polls |-> 0]

\* the two while loops: [delta, phase_acc]
RECURSIVE phase_ticks(_, _)
phase_ticks(delta, phase_acc) ==
    IF phase_acc >= 4 THEN phase_ticks(delta + 1, phase_acc - 4)
    ELSE IF phase_acc <= -4 THEN phase_ticks(delta - 1, phase_acc + 4)
    ELSE [delta |-> delta, phase_acc |-> phase_acc]

\* encoder_poll with the levels the pins have at that moment
encoder_poll(curr_ab, button_level) ==
    LET changed == curr_ab # enc.prev_ab
        step == IF changed THEN transition_step(enc.prev_ab, curr_ab) ELSE 0
        ticks == IF step # 0 THEN phase_ticks(0, enc.phase_acc + step)
                 ELSE [delta |-> 0, phase_acc |-> enc.phase_acc]
        transitions == IF step # 0 THEN 1 ELSE 0
        button_changed == enc.has_button /\ button_level # enc.prev_button_level
        moved == ticks.delta # 0
    IN  enc' = [enc EXCEPT
                  !.prev_ab = curr_ab,
                  !.phase_acc = ticks.phase_acc,
                  !.prev_button_level = IF button_changed THEN button_level ELSE @,
                  !.event = [delta |-> ticks.delta, transitions |-> transitions,
                             moved |-> moved, button_changed |-> button_changed,
                             button_pressed |-> button_changed /\ button_level = 0],
                  !.ret = IF moved \/ button_changed \/ transitions # 0
                          THEN ESP_OK ELSE ESP_ERR_NOT_FOUND,
                  !.steps = @ + step,
                  !.net = @ + ticks.delta,
                  !.polls = @ + 1]

(***************************************************************************)
(* Specifications                                                          *)
(***************************************************************************)
InitFourth == InitRx /\ InitEncoder

InitThird == InitKey /\ InitWifi /\ InitEnter /\ InitParse /\ InitAlloc /\ InitDirty /\ InitFourth

InitLate == InitStrip /\ InitSession /\ InitSend /\ InitAlias /\ InitThird

Init ==
    /\ InitWildcard /\ InitHostBlock /\ InitConfig /\ InitHistory /\ InitNvs
    /\ InitScroll /\ InitIngress /\ InitLate

WildcardRest == <<hbVars, cfgVars, histVars, nvsVars, scrollVars, ingressVars, lateVars>>

NextWildcard ==
    \/ /\ \E pattern \in NonEmptySeqs(PatternAlphabet, MaxPatLen),
             text \in NonEmptySeqs(TextAlphabet, MaxTextLen) :
             WildcardMatchCall(pattern, text)
       /\ UNCHANGED WildcardRest

SpecWildcard == Init /\ [][NextWildcard]_vars

HostBlockRest == <<wmVars, cfgVars, histVars, nvsVars, scrollVars, ingressVars, lateVars>>

NextHostBlock ==
    \/ /\ \E patterns \in NonEmptySeqs(PatternPool, MaxPatterns), alias \in MatchAliasPool :
             HostBlockMatchesCall(patterns, alias)
       /\ UNCHANGED HostBlockRest

SpecHostBlock == Init /\ [][NextHostBlock]_vars

ConfigRest == <<wmVars, hbVars, histVars, nvsVars, scrollVars, ingressVars, lateVars>>

NextConfig ==
    \/ (\E line \in ConfigLinePool : WriteConfigLine(line)) /\ UNCHANGED ConfigRest
    \/ (\E alias \in AliasPool : ResolveAlias(alias)) /\ UNCHANGED ConfigRest

SpecConfig == Init /\ [][NextConfig]_vars

HistoryRest == <<wmVars, hbVars, cfgVars, nvsVars, scrollVars, ingressVars, lateVars>>

NextHistory ==
    \/ (\E key \in KeySet : handle_key_input(key)) /\ UNCHANGED HistoryRest
    \/ (\E direction \in {1, -1} : navigate_history(direction)) /\ UNCHANGED HistoryRest
    \/ move_cursor_left /\ UNCHANGED HistoryRest
    \/ move_cursor_right /\ UNCHANGED HistoryRest
    \/ move_cursor_home /\ UNCHANGED HistoryRest
    \/ move_cursor_end /\ UNCHANGED HistoryRest
    \/ delete_current_history_entry /\ UNCHANGED HistoryRest
    \/ send_current_history_command /\ UNCHANGED HistoryRest
    \/ cursor_blink_cb /\ UNCHANGED HistoryRest

SpecHistory == Init /\ [][NextHistory]_vars

InitPersistAll ==
    /\ InitWildcard /\ InitHostBlock /\ InitConfig /\ InitPersist
    /\ InitScroll /\ InitIngress /\ InitLate

PersistRest == <<wmVars, hbVars, cfgVars, scrollVars, ingressVars, lateVars>>

NextPersist ==
    \/ history_save_cb /\ UNCHANGED PersistRest
    \/ Construct /\ UNCHANGED PersistRest

SpecPersist == InitPersistAll /\ [][NextPersist]_vars

ScrollRest == <<wmVars, hbVars, cfgVars, histVars, nvsVars, ingressVars, lateVars>>

NextScroll ==
    \/ create_terminal_screen /\ UNCHANGED ScrollRest
    \/ /\ \E n \in AppendLens :
             /\ appended + n <= MaxAppended
             /\ n > kTerminalAppendChunkBytes => oversize_calls < MaxOversize
             /\ append_text(AppendArg(n))
       /\ UNCHANGED ScrollRest
    \/ clear_terminal /\ UNCHANGED ScrollRest

SpecScroll == Init /\ [][NextScroll]_vars

\* a connected session: the terminal screen exists and shows the logo
InitIngressAll ==
    /\ InitWildcard /\ InitHostBlock /\ InitConfig /\ InitHistory /\ InitNvs
    /\ InitIngress /\ InitLate
    /\ terminal_output = TRUE
    /\ terminal_text = Tags(1 - kLogoBytes, 0)
    /\ appended = 0
    /\ max_append = 0
    /\ oversize_calls = 0
    /\ term_op = "create"

IngressRest == <<wmVars, hbVars, cfgVars, histVars, nvsVars, lateVars>>

NextIngress ==
    \/ (\E len \in ReadLens : process_received_data(len)) /\ UNCHANGED IngressRest
    \/ flush_display_buffer /\ UNCHANGED IngressRest

SpecIngress == InitIngressAll /\ [][NextIngress]_vars

StripRest == <<wmVars, hbVars, cfgVars, histVars, nvsVars, scrollVars, ingressVars, sessVars, sendVars, aliasVars, thirdVars>>

NextStrip ==
    \/ /\ strip_data = NoCall
       /\ \E data \in NonEmptySeqs(StripBytes, MaxStripLen) : StripCall(data)
       /\ UNCHANGED StripRest

SpecStrip == Init /\ [][NextStrip]_vars

\* the UI context and the workers on a remote that sends nothing
SessionRest == <<wmVars, hbVars, cfgVars, histVars, nvsVars, stripVars, sendVars, aliasVars, thirdVars>>
SessionQuiet == <<scrollVars, ingressVars>>

NextSession ==
    \/ (\E outcome \in ConnectOutcomes("idle") : connect(outcome))
          /\ UNCHANGED <<SessionRest, SessionQuiet>>
    \/ (\E outcome \in {"ok", "fail"} : connect_early(outcome))
          /\ UNCHANGED <<SessionRest, SessionQuiet>>
    \/ (\E outcome \in {"ok", "fail", "open", "pty", "shell"} : connect_late(outcome))
          /\ UNCHANGED <<SessionRest, SessionQuiet>>
    \/ exit_command /\ UNCHANGED <<SessionRest, SessionQuiet>>
    \/ ui_disconnect /\ UNCHANGED <<SessionRest, SessionQuiet>>
    \/ (\E r \in Handles : reader_loop(r)) /\ UNCHANGED <<SessionRest, SessionQuiet>>
    \/ (\E r \in Handles, outcome \in {"again", "zero", "error"} :
            reader_read(r, outcome, 0)) /\ UNCHANGED SessionRest
    \/ (\E r \in Handles, eof \in BOOLEAN : reader_eof(r, eof)) /\ UNCHANGED SessionRest
    \/ (\E r \in Handles : reader_disconnect(r)) /\ UNCHANGED <<SessionRest, SessionQuiet>>

SpecSession == InitIngressAll /\ [][NextSession]_vars

\* the worker of a connected session while the UI context is idle
MaxReaderReceived == 3069

InitReaderAll ==
    /\ InitWildcard /\ InitHostBlock /\ InitConfig /\ InitHistory /\ InitNvs
    /\ InitIngress /\ InitStrip /\ InitConnected /\ InitSend /\ InitAlias /\ InitThird
    /\ terminal_output = TRUE
    /\ terminal_text = Tags(1 - kLogoBytes, 0)
    /\ appended = 0
    /\ max_append = 0
    /\ oversize_calls = 0
    /\ term_op = "create"

ReaderRest == <<wmVars, hbVars, cfgVars, histVars, nvsVars, stripVars, sendVars, aliasVars, thirdVars>>

NextReader ==
    \/ reader_loop(1) /\ UNCHANGED <<ReaderRest, SessionQuiet>>
    \/ /\ \E outcome \in ReadOutcomes, len \in ReadLens :
             /\ outcome = "data" => bytes_received + len <= MaxReaderReceived
             /\ reader_read(1, outcome, len)
       /\ UNCHANGED ReaderRest
    \/ (\E eof \in BOOLEAN : reader_eof(1, eof)) /\ UNCHANGED ReaderRest
    \/ reader_disconnect(1) /\ UNCHANGED <<ReaderRest, SessionQuiet>>

SpecReader == InitReaderAll /\ [][NextReader]_vars

\* send_command on a connected session and on one that never connected
InitSendAll ==
    /\ InitWildcard /\ InitHostBlock /\ InitConfig /\ InitHistory /\ InitNvs
    /\ InitIngress /\ InitStrip /\ InitSend /\ InitAlias /\ InitThird
    /\ InitConnected \/ InitSession
    /\ terminal_output = TRUE
    /\ terminal_text = Tags(1 - kLogoBytes, 0)
    /\ appended = 0
    /\ max_append = 0
    /\ oversize_calls = 0
    /\ term_op = "create"

SendRest == <<wmVars, hbVars, cfgVars, histVars, nvsVars, scrollVars, stripVars, sessVars, aliasVars, thirdVars>>

NextSend ==
    \/ (\E cmd \in SendCommands : send_command(cmd)) /\ UNCHANGED SendRest
    \/ (\E n \in WriteOutcomes(4) : send_write(n)) /\ UNCHANGED SendRest

SpecSend == InitSendAll /\ [][NextSend]_vars

\* the task inside send_command keeps running its loop
SpecSendRunning ==
    SpecSend /\ WF_vars((\E n \in WriteOutcomes(4) : send_write(n)) /\ UNCHANGED SendRest)

\* one alias connect on a session that is down, the remote sending nothing
AliasRest == <<wmVars, hbVars, cfgVars, histVars, nvsVars, stripVars, sendVars, thirdVars>>
AliasQuiet == <<scrollVars, ingressVars>>

NextAlias ==
    \/ (\E identity_files \in SeqsUpTo(IdentityFiles, MaxIdentities) :
            alias_connect(identity_files))
          /\ UNCHANGED <<AliasRest, AliasQuiet, sessVars>>
    \/ (\E loaded, on_sd \in BOOLEAN, readable \in SUBSET (1..MaxCandidates) :
            alias_skip_identity(loaded, readable, on_sd))
          /\ UNCHANGED <<AliasRest, AliasQuiet, sessVars>>
    \/ (\E loaded, on_sd \in BOOLEAN, readable \in SUBSET (1..MaxCandidates),
            outcome \in ConnectOutcomes("idle") :
            alias_try_identity(loaded, readable, on_sd, outcome))
          /\ UNCHANGED <<AliasRest, AliasQuiet>>
    \/ alias_connect_result /\ UNCHANGED <<AliasRest, AliasQuiet, sessVars>>
    \/ alias_return /\ UNCHANGED <<AliasRest, AliasQuiet, sessVars>>
    \/ (AliasInConnect /\ \E outcome \in {"ok", "fail"} : connect_early(outcome))
          /\ UNCHANGED <<AliasRest, AliasQuiet, aliasVars>>
    \/ (AliasInConnect /\ \E outcome \in {"ok", "fail", "open", "pty", "shell"} :
            connect_late(outcome))
          /\ UNCHANGED <<AliasRest, AliasQuiet, aliasVars>>
    \/ (AliasInConnect /\ ui_disconnect) /\ UNCHANGED <<AliasRest, AliasQuiet, aliasVars>>
    \/ (\E r \in Handles : reader_loop(r)) /\ UNCHANGED <<AliasRest, AliasQuiet, aliasVars>>
    \/ (\E r \in Handles, outcome \in {"again", "zero", "error"} :
            reader_read(r, outcome, 0)) /\ UNCHANGED <<AliasRest, aliasVars>>
    \/ (\E r \in Handles, eof \in BOOLEAN : reader_eof(r, eof))
          /\ UNCHANGED <<AliasRest, aliasVars>>
    \/ (\E r \in Handles : reader_disconnect(r))
          /\ UNCHANGED <<AliasRest, AliasQuiet, aliasVars>>

SpecAlias == InitIngressAll /\ [][NextAlias]_vars

\* find_loaded_key_with_fallback on its own
KeyRest == <<wmVars, hbVars, cfgVars, histVars, nvsVars, scrollVars, ingressVars,
             stripVars, sessVars, sendVars, aliasVars, wifiVars, enterVars, parseVars, allocVars,
             dirtyVars, fourthVars>>

NextKey ==
    \/ /\ key_call = NoCall
       /\ \E loaded_keys \in LoadedKeyMaps, identity_path \in IdentityPaths :
             FindLoadedKeyCall(loaded_keys, identity_path)
       /\ UNCHANGED KeyRest

SpecKey == Init /\ [][NextKey]_vars

\* the WiFi profile file read by wifi auto and by a profile lookup
WifiRest == <<wmVars, hbVars, cfgVars, histVars, nvsVars, scrollVars, ingressVars,
              stripVars, sessVars, sendVars, aliasVars, keyVars, enterVars, parseVars, allocVars,
             dirtyVars, fourthVars>>

NextWifi ==
    \/ /\ wifi_call = NoCall
       /\ \E lines \in SeqsUpTo(WifiLinePool, MaxWifiLines), reach \in SUBSET WifiSsids :
             WifiAuto(lines, reach)
       /\ UNCHANGED WifiRest
    \/ /\ wifi_call = NoCall
       /\ \E lines \in SeqsUpTo(WifiLinePool, MaxWifiLines), query \in WifiQueries :
             WifiLookup(lines, query)
       /\ UNCHANGED WifiRest

SpecWifi == Init /\ [][NextWifi]_vars

ParseRest == <<wmVars, hbVars, histVars, nvsVars, scrollVars, ingressVars,
               stripVars, sessVars, sendVars, aliasVars, keyVars, wifiVars, enterVars, allocVars,
             dirtyVars, fourthVars>>

NextParse ==
    \/ (\E line \in ParseLinePool : WriteParseLine(line)) /\ UNCHANGED ParseRest
    \/ ParseHosts /\ UNCHANGED ParseRest
    \/ (\E alias \in AliasPool : ResolveAlias(alias)) /\ UNCHANGED <<ParseRest, parseVars>>

SpecParse == Init /\ [][NextParse]_vars

\* lookups in a file of Port lines
NextPort ==
    \/ (\E line \in PortLinePool : WritePortLine(line)) /\ UNCHANGED ConfigRest
    \/ (\E alias \in AliasPool : ResolveAlias(alias)) /\ UNCHANGED ConfigRest

SpecPort == Init /\ [][NextPort]_vars

InitAllocAll ==
    /\ InitWildcard /\ InitHostBlock /\ InitConfig /\ InitHistory /\ InitNvs
    /\ InitIngress /\ InitStrip /\ InitAllocSession /\ InitSend /\ InitAlias /\ InitThird
    /\ InitAllocScroll

AllocRest == <<wmVars, hbVars, cfgVars, histVars, nvsVars, ingressVars, stripVars,
               sendVars, aliasVars, keyVars, wifiVars, enterVars, parseVars, dirtyVars,
               fourthVars>>

NextAlloc ==
    \/ (\E fn \in {"connect", "connect_with_key"}, ok \in BOOLEAN : alloc_first(fn, ok))
          /\ UNCHANGED AllocRest
    \/ alloc_warn /\ UNCHANGED AllocRest
    \/ (\E granted \in BOOLEAN : alloc_clear(granted)) /\ UNCHANGED AllocRest
    \/ alloc_delay /\ UNCHANGED AllocRest
    \/ (\E ok \in BOOLEAN : alloc_second(ok)) /\ UNCHANGED AllocRest
    \/ alloc_check /\ UNCHANGED AllocRest
    \/ alloc_close /\ UNCHANGED AllocRest

SpecAlloc == InitAllocAll /\ [][NextAlloc]_vars

InitDirtyAll ==
    /\ InitWildcard /\ InitHostBlock /\ InitConfig /\ InitDirtyHistory
    /\ InitScroll /\ InitIngress /\ InitLate

DirtyRest == <<wmVars, hbVars, cfgVars, ingressVars, stripVars, sessVars, sendVars,
               aliasVars, keyVars, wifiVars, enterVars, parseVars, allocVars, fourthVars>>

NextDirty ==
    \/ /\ history_save_timer = "NULL"
       /\ create_terminal_screen
       /\ history_save_timer' = "running"
       /\ UNCHANGED <<histVars, nvsVars, DirtyRest>>
    \/ /\ history_save_timer = "running"
       /\ current_input = <<>>
       /\ handle_key_input(DirtyKey)
       /\ UNCHANGED <<nvsVars, scrollVars, dirtyVars, DirtyRest>>
    \/ /\ history_save_timer = "running"
       /\ Len(command_history) < HistoryCap + MaxOverCap
       /\ handle_enter
       /\ UNCHANGED <<nvsVars, scrollVars, dirtyVars, DirtyRest>>
    \/ /\ history_save_timer = "running"
       /\ history_index < MaxDirtyIndex
       /\ navigate_history(1)
       /\ UNCHANGED <<nvsVars, scrollVars, dirtyVars, DirtyRest>>
    \/ /\ history_save_timer = "running"
       /\ history_index >= 0 => HistoryAt(command_history, history_index) = <<AsciiChar(DirtyKey)>>
       /\ delete_current_history_entry
       /\ UNCHANGED <<nvsVars, scrollVars, dirtyVars, DirtyRest>>
    \/ /\ history_save_timer = "running"
       /\ send_current_history_command
       /\ UNCHANGED <<nvsVars, scrollVars, dirtyVars, DirtyRest>>
    \/ /\ history_save_timer = "running"
       /\ \E res \in NvsResults : history_save_cb_nvs(res)
       /\ UNCHANGED <<scrollVars, DirtyRest>>
    \/ /\ history_save_timer # "deleted"
       /\ \E res \in NvsResults : destroy_terminal(res)
       /\ UNCHANGED <<scrollVars, DirtyRest>>

SpecDirty == InitDirtyAll /\ [][NextDirty]_vars

RxRest == <<wmVars, hbVars, cfgVars, histVars, nvsVars, scrollVars, ingressVars, stripVars,
            sessVars, sendVars, aliasVars, keyVars, wifiVars, enterVars, parseVars, allocVars,
            dirtyVars, encVars>>

NextRx ==
    \/ (\E opened \in BOOLEAN : serial_rx_open(opened)) /\ UNCHANGED RxRest
    \/ (\E line \in RxBeginLines \cup {NoLine} : serial_rx_begin(line)) /\ UNCHANGED RxRest
    \/ (\E line \in RxDataLines \cup {NoLine}, wrote \in BOOLEAN : serial_rx_data(line, wrote))
          /\ UNCHANGED RxRest
    \/ (\E line \in RxEndLines \cup {NoLine} : serial_rx_end(line)) /\ UNCHANGED RxRest

SpecRx == Init /\ [][NextRx]_vars

\* the encoder after boot, polled with every pair of line levels
EncoderRest == <<wmVars, hbVars, cfgVars, histVars, nvsVars, scrollVars, ingressVars, stripVars,
                 sessVars, sendVars, aliasVars, keyVars, wifiVars, enterVars, parseVars,
                 allocVars, dirtyVars, rxVars>>

NextEncoder ==
    \/ /\ ~enc.ready
       /\ \E ab \in 0..3, has_button \in BOOLEAN, button_level \in {0, 1} :
             encoder_init(ab, has_button, button_level)
       /\ UNCHANGED EncoderRest
    \/ /\ enc.ready /\ enc.polls < MaxPolls
       /\ \E curr_ab \in 0..3, button_level \in {0, 1} : encoder_poll(curr_ab, button_level)
       /\ UNCHANGED EncoderRest

SpecEncoder == Init /\ [][NextEncoder]_vars

\* the LVGL timer keeps calling history_save_cb while it exists
SpecDirtyTicking ==
    SpecDirty /\ WF_vars(history_save_timer = "running"
                         /\ (\E res \in NvsResults : history_save_cb_nvs(res))
                         /\ UNCHANGED <<scrollVars, DirtyRest>>)

InitEnterAll ==
    /\ InitWildcard /\ InitHostBlock /\ InitConfig /\ InitEnterHistory /\ InitNvs
    /\ InitScroll /\ InitIngress /\ InitLate

EnterRest == <<wmVars, hbVars, cfgVars, nvsVars, scrollVars, ingressVars,
               stripVars, sessVars, sendVars, aliasVars, keyVars, wifiVars, parseVars, allocVars,
             dirtyVars, fourthVars>>

NextEnter ==
    \/ /\ \E key \in {KEY_LF, KEY_CR}, connected \in BOOLEAN : EnterKey(key, connected)
       /\ UNCHANGED EnterRest

SpecEnter == InitEnterAll /\ [][NextEnter]_vars

\* Enter with the session up or down, and the write loop of send_command
InitSubmitAll ==
    /\ InitWildcard /\ InitHostBlock /\ InitConfig /\ InitEnterHistory /\ InitNvs
    /\ InitScroll /\ InitIngress /\ InitStrip /\ InitSend /\ InitAlias /\ InitThird
    /\ InitConnected \/ InitSession

SubmitRest == <<wmVars, hbVars, cfgVars, nvsVars, scrollVars, stripVars, sessVars, aliasVars,
                keyVars, wifiVars, parseVars, allocVars, dirtyVars, fourthVars>>

NextSubmit ==
    \/ (\E key \in {KEY_LF, KEY_CR} : submit_line(key)) /\ UNCHANGED SubmitRest
    \/ (\E n \in WriteOutcomes(MaxSubmitWrite) : send_write(n))
          /\ UNCHANGED <<histVars, enterVars, SubmitRest>>

SpecSubmit == InitSubmitAll /\ [][NextSubmit]_vars

(***************************************************************************)
(* Properties of the configuration-resolution engine                       *)
(***************************************************************************)
\* the glob relation: "*" any run of characters, "?" one character, any
\* other character itself up to ASCII case, the whole text consumed
RECURSIVE GlobRef(_, _)
GlobRef(pat, text) ==
    IF pat = <<>> THEN text = <<>>
    ELSE IF Head(pat) = "*"
    THEN GlobRef(Tail(pat), text) \/ (text # <<>> /\ GlobRef(pat, Tail(text)))
    ELSE /\ text # <<>>
         /\ Head(pat) = "?" \/ LowerChar(Head(pat)) = LowerChar(Head(text))
         /\ GlobRef(Tail(pat), Tail(text))

\* C3: wildcard_match(pattern, text) equals the glob relation for every
\* pattern and text over the alphabet.
C3_WildcardEqualsGlob ==
    wm_pattern # NoCall => (wm_result <=> GlobRef(wm_pattern, wm_text))

\* the two agree on every text that contains no "*" character
WildcardEqualsGlobOnStarFreeText ==
    (wm_pattern # NoCall /\ \A i \in 1..Len(wm_text) : wm_text[i] # "*")
        => (wm_result <=> GlobRef(wm_pattern, wm_text))

IsNegated(pattern) == pattern # <<>> /\ pattern[1] = "!"

\* some non-negated pattern matches and no negated pattern matches
PatternListMatches(patterns, alias) ==
    /\ \E i \in 1..Len(patterns) :
          /\ patterns[i] # <<>>
          /\ ~IsNegated(patterns[i])
          /\ wildcard_match(patterns[i], alias)
    /\ ~ \E j \in 1..Len(patterns) :
          /\ IsNegated(patterns[j])
          /\ wildcard_match(Tail(patterns[j]), alias)

Reverse(seq) == [i \in 1..Len(seq) |-> seq[Len(seq) + 1 - i]]

\* C2: host_block_matches is true iff some non-negated pattern of the block
\* wildcard-matches the alias and no negated pattern does, in whatever order
\* the patterns are listed.
C2_HostBlockMatchesIff ==
    hb_patterns # NoCall =>
        /\ hb_result <=> PatternListMatches(hb_patterns, hb_alias)
        /\ hb_result <=> host_block_matches(Reverse(hb_patterns), hb_alias)

\* a negated pattern listed after a matching positive one vetoed the block
C2_Witness ==
    /\ hb_patterns # NoCall
    /\ Len(hb_patterns) >= 2
    /\ ~IsNegated(hb_patterns[1]) /\ wildcard_match(hb_patterns[1], hb_alias)
    /\ IsNegated(hb_patterns[2]) /\ wildcard_match(Tail(hb_patterns[2]), hb_alias)
    /\ ~hb_result

ParsedFile == parse_lines(config_lines, 1, EmptyConfigFile)

MatchingBlocks(blocks, alias) ==
    {i \in 1..Len(blocks) : PatternListMatches(blocks[i].patterns, alias)}

\* C1: resolve_ssh_alias reports not-found iff no Host block of the parsed
\* file has a pattern list that matches the alias.
C1_NotFoundIffNoBlockMatches ==
    (res_alias # NoCall /\ config_exists) =>
        /\ resolved.matched <=> MatchingBlocks(ParsedFile.host_blocks, res_alias) # {}
        /\ ~resolved.matched => resolved = NotFound

\* a lookup succeeded on a file that also holds a block that does not match
C1_Witness ==
    /\ res_alias # NoCall
    /\ resolved.matched
    /\ LET blocks == ParsedFile.host_blocks
           matching == MatchingBlocks(blocks, res_alias)
       IN  matching # {} /\ \E i \in 1..Len(blocks) : i \notin matching

SetMax(S) == CHOOSE m \in S : \A x \in S : x <= m

\* value of a scalar option: last matching block that sets it, else the
\* global set, else the default
ExpectedScalar(file, matching, has_field, field, default) ==
    LET setters == {i \in matching : file.host_blocks[i].options[has_field]}
    IN  IF setters # {} THEN file.host_blocks[SetMax(setters)].options[field]
        ELSE IF file.global_options[has_field] THEN file.global_options[field]
        ELSE default

\* C4: every scalar option of a resolved host comes from the last matching
\* Host block that sets it, else from the global set, else is the default.
C4_ScalarsFromLastSetter ==
    (res_alias # NoCall /\ resolved.matched) =>
        LET file == ParsedFile
            m == MatchingBlocks(file.host_blocks, res_alias)
        IN  /\ resolved.host_name =
                   ExpectedScalar(file, m, "has_host_name", "host_name", res_alias)
            /\ resolved.user = ExpectedScalar(file, m, "has_user", "user", <<>>)
            /\ resolved.port = ExpectedScalar(file, m, "has_port", "port", 22)
            /\ resolved.identities_only =
                   ExpectedScalar(file, m, "has_identities_only", "identities_only", FALSE)
            /\ resolved.strict_host_key_checking =
                   ExpectedScalar(file, m, "has_strict_host_key_checking",
                                  "strict_host_key_checking", Lit.ask)
            /\ resolved.network = ExpectedScalar(file, m, "has_network", "network", <<>>)

\* two matching blocks set different ports and the later one won
C4_Witness ==
    /\ res_alias # NoCall
    /\ resolved.matched
    /\ LET blocks == ParsedFile.host_blocks IN
       \E i, j \in MatchingBlocks(blocks, res_alias) :
          /\ i < j
          /\ blocks[i].options.has_port /\ blocks[j].options.has_port
          /\ blocks[i].options.port # blocks[j].options.port
          /\ resolved.port = blocks[j].options.port

(***************************************************************************)
(* Properties of the command history                                       *)
(***************************************************************************)
NoDuplicates(seq) == \A i, j \in 1..Len(seq) : seq[i] = seq[j] => i = j

Contains(seq, x) == \E i \in 1..Len(seq) : seq[i] = x

\* C5: from a duplicate-free history every operation leaves the history
\* duplicate-free; right after submitting c the last entry is c, and
\* submitting a command already present keeps the length.
C5_HistoryUnique ==
    [][ NoDuplicates(command_history) =>
          /\ NoDuplicates(command_history')
          /\ last_op' = "submit" =>
                /\ command_history' # <<>>
                /\ command_history'[Len(command_history')] = current_input
                /\ Contains(command_history, current_input)
                       => Len(command_history') = Len(command_history) ]_vars

\* a command already in a history of two or more entries was submitted again
C5_Witness ==
    /\ last_op = "submit"
    /\ Len(command_history) >= 2
    /\ op_prev_len = Len(command_history)

C7_IndexInRange ==
    /\ history_index >= -1
    /\ history_index <= Len(command_history) - 1

\* the oldest entry was deleted while selected and the index moved to the
\* entry that is now the oldest
C7_Witness ==
    /\ last_op = "delete"
    /\ op_prev_len = Len(command_history) + 1
    /\ history_index >= 0
    /\ history_index = Len(command_history) - 1

(***************************************************************************)
(* Properties of the scrollback                                            *)
(***************************************************************************)
\* the newest kTerminalScrollbackBytes bytes of the appended stream
NewestAppended == Tags(appended - kTerminalScrollbackBytes + 1, appended)

AppendShape(old, new, before, after, kept) ==
    /\ kept = 0 \/ new[kept] <= before
    /\ kept = Len(new) \/ new[kept + 1] > before
    /\ SubSeq(new, kept + 1, Len(new)) = Tags(after - (Len(new) - kept) + 1, after)
    /\ kept <= Len(old)
    /\ SubSeq(new, 1, kept) = Suffix(old, kept)

\* C9: an append_text call on a scrollback within kTerminalScrollbackBytes
\* leaves it within kTerminalScrollbackBytes; what it adds is a suffix of its
\* argument of at most kTerminalAppendChunkBytes bytes, and what it keeps of
\* the old text is a suffix of the old text (only the oldest bytes go).
C9_AppendKeepsCap ==
    [][ (/\ terminal_output
         /\ appended' > appended
         /\ Len(terminal_text) <= kTerminalScrollbackBytes) =>
            /\ Len(terminal_text') <= kTerminalScrollbackBytes
            /\ \E added \in 0..MinOf(appended' - appended, kTerminalAppendChunkBytes) :
                  /\ added <= Len(terminal_text')
                  /\ AppendShape(terminal_text, terminal_text', appended, appended',
                                 Len(terminal_text') - added)
      ]_vars

\* the latest call brought more than kTerminalAppendChunkBytes bytes to a full
\* scrollback: old bytes were trimmed, the last kTerminalAppendChunkBytes bytes
\* of the argument were added and the bytes before them are missing
C9_Witness ==
    /\ terminal_output
    /\ term_op = "append"
    /\ Len(terminal_text) = kTerminalScrollbackBytes
    /\ terminal_text[Len(terminal_text)] = appended
    /\ terminal_text[Len(terminal_text) - kTerminalAppendChunkBytes]
           < appended - kTerminalAppendChunkBytes

(***************************************************************************)
(* Properties of the ingress buffer                                        *)
(***************************************************************************)
\* text_buffer + cleaned after the overflow cut, as the claim describes it
NewestIngress(buffer, cleaned) ==
    IF Len(buffer) + Len(cleaned) > kTerminalIngressMaxBytes
    THEN Suffix(buffer \o cleaned, kTerminalIngressKeepBytes)
    ELSE buffer \o cleaned

IsSuffixOf(s, whole) == Len(s) <= Len(whole) /\ s = Suffix(whole, Len(s))

\* C10 as stated: after a process_received_data call the ingress buffer holds
\* at most kTerminalIngressMaxBytes bytes; when adding the stripped bytes
\* pushed it past the cap it is exactly the newest kTerminalIngressKeepBytes
\* bytes of the concatenation, and otherwise nothing of the concatenation
\* was dropped (bytes leave only at the head, to the display).
C10_BufferIsNewestAfterCall ==
    [][ bytes_received' # bytes_received =>
          /\ Len(text_buffer') <= kTerminalIngressMaxBytes
          /\ IF Len(text_buffer) + Len(last_cleaned') > kTerminalIngressMaxBytes
             THEN text_buffer' = Suffix(text_buffer \o last_cleaned',
                                        kTerminalIngressKeepBytes)
             ELSE IsSuffixOf(text_buffer', text_buffer \o last_cleaned')
      ]_vars

\* C10: after a process_received_data call the ingress buffer holds at most
\* kTerminalIngressMaxBytes bytes.  Adding the stripped bytes leaves the
\* concatenation whole, or its newest kTerminalIngressKeepBytes bytes when it
\* passed the cap; the flush of the same call then takes whole chunks off
\* the head, so the buffer after the call is a suffix of that content, and
\* it is all of that content when the flush interval had not elapsed.
C10_BufferIsSuffixOfNewest ==
    [][ bytes_received' # bytes_received =>
          LET newest == NewestIngress(text_buffer, last_cleaned')
              taken == Len(newest) - Len(text_buffer')
          IN  /\ Len(text_buffer') <= kTerminalIngressMaxBytes
              /\ IsSuffixOf(text_buffer', newest)
              /\ taken % CHUNK_SIZE = 0 \/ text_buffer' = <<>>
              /\ (/\ since_display_update' > 0
                  /\ since_display_update' < kTerminalFlushIntervalMs) => taken = 0
      ]_vars

\* the call that cut the buffer to its newest bytes also flushed part of them
C10_Witness ==
    /\ last_cut
    /\ text_buffer # <<>>
    /\ Len(text_buffer) < kTerminalIngressKeepBytes
    /\ terminal_text[Len(terminal_text)] = text_buffer[1] - 1

(***************************************************************************)
(* Properties of strip_ansi_codes                                          *)
(***************************************************************************)
\* the end of the CSI sequence whose '[' is at index k: its first letter
CsiEnds(data, k) == {j \in (k + 1)..Len(data) : IsAlpha(StreamByte(data[j]))}

\* the end of the OSC sequence whose ']' is at index k: BEL, or the
\* backslash of ESC-backslash
OscEnds(data, k) ==
    {j \in (k + 1)..Len(data) :
        \/ StreamByte(data[j]) = 7
        \/ StreamByte(data[j]) = 92 /\ j > k + 1 /\ StreamByte(data[j - 1]) = 27}

FirstOf(S) == CHOOSE j \in S : \A m \in S : j <= m

\* the stripped text as the contract describes it, from index k on: CSI, OSC
\* and charset sequences and CR are dropped, an unterminated sequence takes
\* the remainder, an ESC that starts none of them is dropped alone, every
\* other byte is copied
RECURSIVE StripRef(_, _)
StripRef(data, k) ==
    IF k > Len(data) THEN <<>>
    ELSE IF StreamByte(data[k]) = 27 /\ k < Len(data) /\ StreamByte(data[k + 1]) = 91
    THEN IF CsiEnds(data, k + 1) = {} THEN <<>>
         ELSE StripRef(data, FirstOf(CsiEnds(data, k + 1)) + 1)
    ELSE IF StreamByte(data[k]) = 27 /\ k < Len(data) /\ StreamByte(data[k + 1]) = 93
    THEN IF OscEnds(data, k + 1) = {} THEN <<>>
         ELSE StripRef(data, FirstOf(OscEnds(data, k + 1)) + 1)
    ELSE IF StreamByte(data[k]) = 27 /\ k < Len(data) /\ StreamByte(data[k + 1]) \in {40, 41}
    THEN StripRef(data, k + 3)
    ELSE IF StreamByte(data[k]) \in {27, 13}
    THEN StripRef(data, k + 1)
    ELSE <<data[k]>> \o StripRef(data, k + 1)

\* C11: strip_ansi_codes removes every CSI sequence (ESC '[' through the
\* first letter), every OSC sequence (ESC ']' through BEL or ESC-backslash),
\* every charset designator (ESC '(' or ESC ')' plus one byte) and every
\* carriage return, copies all other bytes unchanged and in order, lets an
\* unterminated sequence take the remainder, and never puts an ESC or CR
\* byte into its output.
C11_StripRemovesEscapes ==
    strip_data # NoCall =>
        /\ strip_result = StripRef(strip_data, 1)
        /\ \A k \in 1..Len(strip_result) : StreamByte(strip_result[k]) \notin {27, 13}

\* the output of strip_ansi_codes holds no ESC and no CR byte, and only
\* bytes of the input in their order
StripOutputHasNoEscOrCr ==
    strip_data # NoCall =>
        /\ \A k \in 1..Len(strip_result) : StreamByte(strip_result[k]) \notin {27, 13}
        /\ Len(strip_result) <= Len(strip_data)

\* when every ESC of the input is followed by '[', ']', '(' or ')' and no
\* ESC directly follows another, the output is the stripped text of the
\* contract
StripEqualsRefOnListedEscapes ==
    (/\ strip_data # NoCall
     /\ \A k \in 1..Len(strip_data) :
           StreamByte(strip_data[k]) = 27 =>
              /\ k < Len(strip_data)
              /\ StreamByte(strip_data[k + 1]) \in {91, 93, 40, 41})
        => strip_result = StripRef(strip_data, 1)

(***************************************************************************)
(* Properties of the session engine                                        *)
(***************************************************************************)
\* the handles of a kind that were acquired and not released
Live(kind) == {h \in acquired[kind] : released[kind][h] = 0}

RunningReaders == {r \in Handles : readers[r].pc \notin {"none", "dead"}}

\* C12: after any sequence of commands, ssh / sshkey / connect issued while
\* a session is connected included, at most one socket, one session and one
\* channel are live, each live handle is the one its field holds (connect
\* overwrites no live handle), and at most one reader worker is running.
C12_AtMostOneSession ==
    /\ Live("sock") \subseteq {ssh_socket}
    /\ Live("sess") \subseteq {session}
    /\ Live("chan") \subseteq {channel}
    /\ Cardinality(RunningReaders) <= 1

\* worker r calls libssh2_channel_read or libssh2_channel_eof in this step
ReaderCallsChannel(r) ==
    readers[r].pc \in {"r_read", "r_eof"} /\ readers'[r].pc # readers[r].pc

\* C13: in every interleaving of a disconnect of the UI context with the
\* running reader worker, channel, session and socket are each released
\* exactly once and the worker never calls read or eof on a released
\* channel handle.
C13_ReleasedOnceNoStaleRead ==
    [][ /\ \A kind \in {"sock", "sess", "chan"}, h \in Handles : released'[kind][h] <= 1
        /\ \A r \in Handles : ReaderCallsChannel(r) => ~UsesReleased
      ]_vars

SessionDown ==
    ~ssh_connected /\ ssh_socket = NoSocket /\ session = NULL /\ channel = NULL

\* C14: every connect attempt that fails returns with connected = false,
\* socket = -1, session = null and channel = null, and each handle the
\* attempt acquired was released exactly once.
C14_FailedConnectLeavesNothing ==
    (ui.pc = "idle" /\ ui.result = "fail") =>
        /\ SessionDown
        /\ \A kind \in {"sock", "sess", "chan"} :
              attempts \in acquired[kind] => released[kind][attempts] = 1

\* a failed attempt made while no reader worker was ever started leaves the
\* session down with every acquired handle released exactly once
FailedConnectWithoutWorkerIsClean ==
    (/\ ui.pc = "idle" /\ ui.result = "fail"
     /\ \A r \in Handles : readers[r].pc = "none") =>
        /\ SessionDown
        /\ \A kind \in {"sock", "sess", "chan"}, h \in Handles :
              released[kind][h] = IF h \in acquired[kind] THEN 1 ELSE 0

\* C15: a disconnect call, in whatever state it starts (never connected,
\* after a failed connect step, connected, already disconnected), ends with
\* connected = false, channel = null, session = null and socket = -1, and
\* releases no handle that was released before; started on a session that
\* is already down it releases nothing.  (A call is taken on its own: no
\* worker writes the session fields while it runs.)
C15_DisconnectIdempotent ==
    (ui.pc = "d_end" /\ ui.call.solo) =>
        /\ SessionDown
        /\ ~ui.call.again
        /\ ui.call.was_down => ui.call.freed = 0

\* a second disconnect after one that released the three handles
C15_Witness ==
    /\ ui.pc = "d_end" /\ ui.call.solo /\ ui.call.was_down /\ ui.call.freed = 0
    /\ ui.result = "exiting"
    /\ released.chan[1] = 1 /\ released.sess[1] = 1 /\ released.sock[1] = 1

Started(pc, trace) == \E k \in 1..Len(trace) : trace[k] = pc

C17_FlushBeforeTeardown ==
    \A r \in Handles :
        /\ (/\ readers[r].pc \in DisconnectPcs
            /\ readers[r].cause \in {"error", "eof"}
            /\ text_buffer # <<>>) => readers[r].flushed
        /\ readers[r].pc = "dead" => SessionDown /\ Live("sock") \cup Live("sess") \cup Live("chan") = {}

\* a worker that left on end of stream flushed first, and a worker that has
\* ended leaves the session down
FlushOnEofAndTeardown ==
    \A r \in Handles :
        /\ (readers[r].pc \in DisconnectPcs /\ readers[r].cause = "eof") => readers[r].flushed
        /\ readers[r].pc = "dead" => SessionDown /\ Live("sock") \cup Live("sess") \cup Live("chan") = {}

(***************************************************************************)
(* Properties of send_command                                              *)
(***************************************************************************)
IsPrefixOf(s, whole) == Len(s) <= Len(whole) /\ s = SubSeq(whole, 1, Len(s))

\* C18: send_command writes the command followed by one newline: what the
\* channel has accepted is always a prefix of it, and all of it when the
\* call returns without a write error and with retries left.  When every write returned "try again" the call gives
\* up after MAX_RETRIES attempts with 0 bytes written.  Without a channel it
\* does nothing.  No step of the call changes the connection state.
C18_SendWritesCommandAndNewline ==
    [][ /\ IsPrefixOf(send'.wire, send'.cmd \o <<KEY_LF>>)
        /\ Len(send'.wire) = send'.nwritten
        /\ (send'.pc = "done" /\ channel # NULL /\ ~send'.error
                /\ send'.retry_count < MAX_RETRIES)
              => send'.wire = send'.cmd \o <<KEY_LF>>
        /\ (send'.pc = "done" /\ channel # NULL /\ send'.only_again)
              => send'.retry_count = MAX_RETRIES /\ send'.nwritten = 0
        /\ (send'.pc = "done" /\ channel = NULL)
              => send'.retry_count = 0 /\ send'.wire = <<>> /\ bytes_received' = bytes_received
        /\ UNCHANGED <<ssh_connected, ssh_socket, session, channel, readers>>
      ]_vars

\* every write returned "try again" and the call gave up
C18_Witness ==
    /\ send.pc = "done" /\ channel # NULL
    /\ send.only_again /\ send.retry_count = MAX_RETRIES /\ send.nwritten = 0

(***************************************************************************)
(* Properties of flush_display_buffer                                      *)
(***************************************************************************)
\* the ingress buffer a step's flush starts from: text_buffer for the flush
\* of the try-again branch, the buffer after the overflow cut for a read
FlushStart ==
    IF bytes_received' = bytes_received THEN text_buffer
    ELSE ingress_add(text_buffer, last_cleaned')

\* the number of bytes the step handed to append_text
FlushAppended == appended' - appended

\* the step put the first FlushAppended bytes of start at the end of the
\* scrollback, in order, and left the rest of start in the ingress buffer
FlushMoves(start) ==
    /\ FlushAppended <= Len(start)
    /\ text_buffer' = SubSeq(start, FlushAppended + 1, Len(start))
    /\ Suffix(terminal_text', MinOf(FlushAppended, Len(terminal_text')))
         = SubSeq(start, FlushAppended - MinOf(FlushAppended, Len(terminal_text')) + 1,
                  FlushAppended)

\* C19: a flush that finds the display lock busy leaves the ingress buffer
\* unchanged, and a flush that finds it busy part-way has appended to the
\* scrollback exactly the bytes it removed from the head of the ingress
\* buffer: appended bytes followed by remaining bytes are the buffer before
\* the flush.
C19_FlushConservesBytes == [][FlushMoves(FlushStart)]_vars

\* the buffer before the flush holds a NUL byte
HasNul(buffer) == \E k \in 1..Len(buffer) : StreamByte(buffer[k]) = 0

\* the same on every flush whose buffer holds no NUL byte
FlushConservesBytesWithoutNul ==
    [][~HasNul(FlushStart) => FlushMoves(FlushStart)]_vars

(***************************************************************************)
(* Properties of connect_with_alias_identities                             *)
(***************************************************************************)
\* C20: the identities the loop has taken are the first ones of the list,
\* in list order; an identity is skipped exactly when its key was found
\* nowhere, and tried otherwise; only the last identity taken can be the
\* one that connected or is connecting, so the loop stops at the first
\* success and goes on after a skip or a failure; "all configured identity
\* files failed" is written only when every identity of the list was tried
\* and failed or was skipped.
C20_IdentitiesInOrderUntilSuccess ==
    /\ Len(alias_call.log) <= Len(alias_call.identity_files)
    /\ \A k \in 1..Len(alias_call.log) :
          /\ alias_call.log[k].identity = alias_call.identity_files[k]
          /\ (alias_call.log[k].result = "skipped") = (alias_call.log[k].source = "none")
          /\ k < Len(alias_call.log) => alias_call.log[k].result \in {"skipped", "failed"}
    /\ alias_call.connected =
          (alias_call.log # <<>> /\ alias_call.log[Len(alias_call.log)].result = "ok")
    /\ (alias_call.pc = "done" /\ ~alias_call.connected)
          => Len(alias_call.log) = Len(alias_call.identity_files)
    /\ alias_call.report = "all_failed"
          => /\ alias_call.identity_files # <<>>
             /\ Len(alias_call.log) = Len(alias_call.identity_files)
             /\ \A k \in 1..Len(alias_call.log) : alias_call.log[k].result \in {"skipped", "failed"}

\* an identity was skipped, a later one was tried and failed, and the call
\* reported that all identity files failed
C20_Witness ==
    /\ alias_call.pc = "done"
    /\ alias_call.report = "all_failed"
    /\ \E j, k \in 1..Len(alias_call.log) :
          /\ j < k
          /\ alias_call.log[j].result = "skipped"
          /\ alias_call.log[k].result = "failed"

\* an identity was skipped and a later one connected
AliasConnectsAfterSkip ==
    /\ alias_call.pc = "done"
    /\ alias_call.connected
    /\ alias_call.log[1].result = "skipped"

(***************************************************************************)
(* Properties of find_loaded_key_with_fallback                             *)
(***************************************************************************)
KeyNames == DOMAIN key_call.loaded_keys
DesiredName == base_name(key_call.identity_path)
DesiredStem == normalize_key_stem(DesiredName)

\* the ways a loaded key can match the desired name
ExactName(c) == c = lowercase_ascii(DesiredName)
ExactStem(c) == normalize_key_stem(c) # <<>> /\ normalize_key_stem(c) = DesiredStem
StemPrefix(c) ==
    /\ normalize_key_stem(c) # <<>> /\ DesiredStem # <<>>
    /\ \/ StartsWith(DesiredStem, normalize_key_stem(c))
       \/ StartsWith(normalize_key_stem(c), DesiredStem)
\* the key is an 8.3 short name whose part before '~' starts the desired stem
TruncatedPrefix(c) ==
    /\ short_name_prefix(c) # <<>> /\ StartsWith(DesiredStem, short_name_prefix(c))
\* the desired name is an 8.3 short name whose part before '~' starts the key
DesiredTruncatedPrefix(c) ==
    /\ parse_short_83_name(DesiredName).ok
    /\ StartsWith(lower_stem(c), parse_short_83_name(DesiredName).prefix)

MatchesSomehow(c) ==
    \/ ExactName(c) \/ ExactStem(c) \/ StemPrefix(c)
    \/ TruncatedPrefix(c) \/ DesiredTruncatedPrefix(c)

\* C21: with exactly one loaded key the function returns that key's
\* content, whatever the desired name; with two or more loaded keys of
\* which none matches the desired name by exact name, normalized stem,
\* prefix or truncated prefix it returns no key.
C21_SoleKeyFallback ==
    key_call # NoCall =>
        /\ Cardinality(KeyNames) = 1
              => \A c \in KeyNames : key_call.result.key = key_call.loaded_keys[c]
        /\ (Cardinality(KeyNames) >= 2 /\ \A c \in KeyNames : ~MatchesSomehow(c))
              => key_call.result.key = NULL

\* the one loaded key was returned for a name it has nothing in common with
C21_Witness ==
    /\ key_call # NoCall
    /\ Cardinality(KeyNames) = 1
    /\ \A c \in KeyNames : ~MatchesSomehow(c) /\ key_call.result.key = key_call.loaded_keys[c]

\* two unrelated keys: no key
TwoUnrelatedKeysGiveNone ==
    /\ key_call # NoCall
    /\ Cardinality(KeyNames) >= 2
    /\ \A c \in KeyNames : ~MatchesSomehow(c)
    /\ key_call.result.key = NULL

\* the loaded keys that match the desired name through a truncated prefix
\* only
OnlyTruncated == {c \in KeyNames : TruncatedPrefix(c) /\ ~ExactName(c) /\ ~ExactStem(c) /\ ~StemPrefix(c)}

\* C22: when two or more loaded keys match the desired name only through a
\* shared truncated prefix and no loaded key matches by exact name or exact
\* stem, the function returns no key.
C22_AmbiguousTruncatedPrefixGivesNone ==
    (key_call # NoCall
        /\ (\E c, d \in OnlyTruncated :
               c # d /\ short_name_prefix(c) = short_name_prefix(d))
        /\ (\A k \in KeyNames : ~ExactName(k) /\ ~ExactStem(k)))
    => key_call.result.key = NULL

\* the same when the desired name is no 8.3 short name
AmbiguousTruncatedPrefixGivesNoneForLongNames ==
    (key_call # NoCall
        /\ ~parse_short_83_name(DesiredName).ok
        /\ (\E c, d \in OnlyTruncated :
               c # d /\ short_name_prefix(c) = short_name_prefix(d))
        /\ (\A k \in KeyNames : ~ExactName(k) /\ ~ExactStem(k)))
    => key_call.result.key = NULL

(***************************************************************************)
(* Properties of the WiFi profiles                                         *)
(***************************************************************************)
\* the profiles whose AutoConnect was set, and set to a true value
AutoTrue(profiles) ==
    {i \in 1..Len(profiles) : profiles[i].has_auto_connect /\ profiles[i].auto_connect}

\* wifi auto hands to connect_wifi_profile, in file order, the profiles
\* with AutoConnect true, up to and including the first that connects
AutoAttemptsInOrder ==
    wifi_call # NoCall /\ wifi_call.op = "auto" =>
        LET tried == wifi_call.result.attempts
            auto  == AutoTrue(wifi_call.profiles)
        IN  /\ \A k \in 1..Len(tried) : tried[k] \in auto
            /\ \A k \in 1..(Len(tried) - 1) : tried[k] < tried[k + 1]
            /\ \A i \in auto :
                  (\E k \in 1..Len(tried) : tried[k] = i)
                  \/ (wifi_call.result.connected /\ i > tried[Len(tried)])
            /\ \A k \in 1..Len(tried) :
                  (wifi_call.profiles[tried[k]].ssid \in wifi_call.reach)
                     = (wifi_call.result.connected /\ k = Len(tried))

\* the SSIDs of the profiles wifi auto attempted
AttemptedSsids ==
    [k \in 1..Len(wifi_call.result.attempts) |->
        wifi_call.profiles[wifi_call.result.attempts[k]].ssid]

\* the two profiles of the scenario, the unnamed one written first and
\* written last
GuestThenHome == << <<"S", "S", "I", "D", " ", "G", "u", "e", "s", "t">>, <<"N", "e", "t", "w", "o", "r", "k", " ", "H", "o", "m", "e">>, <<"S", "S", "I", "D", " ", "H", "o", "m", "e", "A", "P">>, <<"A", "u", "t", "o", "C", "o", "n", "n", "e", "c", "t", " ", "y", "e", "s">> >>
HomeThenGuest == << <<"N", "e", "t", "w", "o", "r", "k", " ", "H", "o", "m", "e">>, <<"S", "S", "I", "D", " ", "H", "o", "m", "e", "A", "P">>, <<"A", "u", "t", "o", "C", "o", "n", "n", "e", "c", "t", " ", "y", "e", "s">>, <<"S", "S", "I", "D", " ", "G", "u", "e", "s", "t">> >>

EqualsIgnoringCase(a, b) == lowercase_ascii(a) = lowercase_ascii(b)

NameMatches(profiles, query) ==
    {i \in 1..Len(profiles) :
        profiles[i].network_name # <<>> /\ EqualsIgnoringCase(profiles[i].network_name, query)}

SsidMatches(profiles, query) ==
    {i \in 1..Len(profiles) :
        profiles[i].ssid # <<>> /\ EqualsIgnoringCase(profiles[i].ssid, query)}

\* the profile the lookup is to return for the query: the first with that
\* name, else the first with that SSID, else none
LookupRef(profiles, query) ==
    IF query = <<>> THEN 0
    ELSE IF NameMatches(profiles, query) # {}
    THEN CHOOSE i \in NameMatches(profiles, query) :
            \A j \in NameMatches(profiles, query) : i <= j
    ELSE IF SsidMatches(profiles, query) # {}
    THEN CHOOSE i \in SsidMatches(profiles, query) :
            \A j \in SsidMatches(profiles, query) : i <= j
    ELSE 0

\* C24: find_wifi_profile returns the first profile whose name equals the
\* query ignoring ASCII case, else the first profile whose SSID does, and
\* none when there is no such profile or the query is empty.
C24_LookupByNameThenSsid ==
    wifi_call # NoCall /\ wifi_call.op = "lookup" =>
        wifi_call.result = LookupRef(wifi_call.profiles, wifi_call.query)

\* the same for the query without the whitespace around it
LookupByTrimmedQuery ==
    wifi_call # NoCall /\ wifi_call.op = "lookup" =>
        wifi_call.result = LookupRef(wifi_call.profiles, trim_ascii(wifi_call.query))

\* a name match on a later profile is returned before an SSID match on an
\* earlier one
LookupPrefersName ==
    /\ wifi_call # NoCall /\ wifi_call.op = "lookup"
    /\ wifi_call.result = 2
    /\ 1 \in SsidMatches(wifi_call.profiles, wifi_call.query)

(***************************************************************************)
(* Properties of history navigation and of Enter                           *)
(***************************************************************************)
\* a navigation step moves the index by one towards the oldest entry
\* (older) or towards -1 (newer), or leaves it at the end it has reached
NavigationMovesIndex ==
    /\ last_op' = "older" =>
          history_index' = IF history_index = Len(command_history) - 1
                           THEN history_index ELSE history_index + 1
    /\ last_op' = "newer" =>
          history_index' = IF history_index > 0 THEN history_index - 1 ELSE -1
    /\ last_op' \in {"older", "newer"} => command_history' = command_history

\* at the ends a navigation step keeps the input text, except that newer
\* at index 0 clears it
NavigationAtTheEnds ==
    /\ (last_op' = "older" /\ history_index = Len(command_history) - 1)
          => current_input' = current_input
    /\ (last_op' = "newer" /\ history_index = -1) => current_input' = current_input
    /\ (last_op' = "newer" /\ history_index = 0) => current_input' = <<>>

\* C25 as stated: older adds one to the index unless it is size-1 (then
\* nothing changes), newer takes one off when positive, at 0 sets -1 and
\* clears the input, at -1 changes nothing; whenever a navigation step
\* leaves the index at i >= 0 the input is history[size-1-i] and the cursor
\* is at the end of the input.
C25_NavigationShowsEntry ==
    [][ /\ NavigationMovesIndex
        /\ NavigationAtTheEnds
        /\ (last_op' \in {"older", "newer"} /\ history_index' >= 0) =>
              /\ current_input' = command_history'[Len(command_history') - history_index']
              /\ cursor_pos' = Len(current_input') ]_vars

\* C25: the index moves as stated; a navigation step that moves the index
\* to i >= 0 sets the input to history[size-1-i]; a step that leaves the
\* index where it was keeps the input, whatever was typed into it; with a
\* non-empty history every navigation step puts the cursor at the end of
\* the input, with an empty history it changes nothing.
C25_NavigationMovesThroughHistory ==
    [][ /\ NavigationMovesIndex
        /\ NavigationAtTheEnds
        /\ (last_op' \in {"older", "newer"} /\ history_index' >= 0
               /\ history_index' # history_index) =>
              current_input' = command_history'[Len(command_history') - history_index']
        /\ (last_op' \in {"older", "newer"} /\ command_history # <<>>) =>
              cursor_pos' = Len(current_input')
        /\ (last_op' \in {"older", "newer"} /\ command_history = <<>>) =>
              UNCHANGED <<history_index, current_input, cursor_pos>> ]_vars

\* older moved from the newest entry to the one before it
C25_Witness ==
    /\ last_op = "older"
    /\ history_index = 1
    /\ Len(command_history) >= 2
    /\ current_input = command_history[Len(command_history) - 1]
    /\ current_input # command_history[Len(command_history)]
    /\ cursor_pos = Len(current_input)

\* older at the oldest entry after the line was edited: the index stays
\* and the input is not the entry
OlderAtOldestKeepsEditedInput ==
    /\ last_op = "older"
    /\ history_index = Len(command_history) - 1
    /\ history_index >= 0
    /\ current_input # command_history[1]

\* C26: Enter on a non-empty line runs one branch of the command surface,
\* leaves the line as the newest history entry, the input empty, the
\* cursor at 0 and the navigation index at -1, whatever the command;
\* Enter on an empty line leaves the history and the index as they were.
C26_EnterSubmitsOnce ==
    enter_call # NoCall =>
        IF enter_call.line # <<>>
        THEN /\ Len(enter_call.surface) = 1
             /\ command_history # <<>>
             /\ command_history[Len(command_history)] = enter_call.line
             /\ \A i \in 1..(Len(command_history) - 1) :
                   command_history[i] # enter_call.line
             /\ \A i \in 1..Len(enter_call.history) :
                   enter_call.history[i] # enter_call.line
                      => Contains(command_history, enter_call.history[i])
             /\ current_input = <<>>
             /\ cursor_pos = 0
             /\ history_index = -1
        ELSE /\ enter_call.surface = <<>>
             /\ command_history = enter_call.history
             /\ history_index = enter_call.index

\* Enter on "clear" while an older entry was selected and the session was
\* up: the line ran as the local command and was recorded
C26_Witness ==
    /\ enter_call # NoCall
    /\ enter_call.line = <<"c", "l", "e", "a", "r">>
    /\ enter_call.connected
    /\ enter_call.surface = <<"clear">>
    /\ enter_call.index = 1
    /\ command_history = << <<"l", "s">>, <<"c", "l", "e", "a", "r">> >>
    /\ history_index = -1
    /\ current_input = <<>>

\* Enter on an empty line with an entry selected
EnterOnEmptyLine ==
    /\ enter_call # NoCall
    /\ enter_call.line = <<>>
    /\ history_index = 0
    /\ command_history # <<>>

(***************************************************************************)
(* Properties of the host-alias file: identity files, lines passed over    *)
(***************************************************************************)
RECURSIVE ConcatIdentityFiles(_, _, _)
ConcatIdentityFiles(blocks, matching, i) ==
    IF i > Len(blocks) THEN <<>>
    ELSE (IF i \in matching THEN blocks[i].options.identity_files ELSE <<>>)
         \o ConcatIdentityFiles(blocks, matching, i + 1)

\* C27: the identity files of a resolved host are those of the global
\* section followed by those of every matching Host block, in file order;
\* blocks that do not match add none and no block replaces what came before.
C27_IdentityFilesAccumulate ==
    (res_alias # NoCall /\ config_exists /\ resolved.matched) =>
        resolved.identity_files =
            ParsedFile.global_options.identity_files
            \o ConcatIdentityFiles(ParsedFile.host_blocks,
                                   MatchingBlocks(ParsedFile.host_blocks, res_alias), 1)

\* a global identity file, one in a block that does not match and one in a
\* block that matches: the first and the last are resolved, in this order
C27_Witness ==
    /\ res_alias = <<"A", "b">>
    /\ config_lines = << <<"i", "d", "e", "n", "t", "i", "t", "y", "f", "i", "l", "e", "=", "k", "1">>, <<"H", "o", "s", "t", " ", "b">>, <<"I", "d", "e", "n", "t", "i", "t", "y", "F", "i", "l", "e", " ", "~", "/", ".", "s", "s", "h", "/", "k", "2">>, <<"H", "o", "s", "t", " ", "a", "*">> >>
    /\ resolved.matched
    /\ resolved.identity_files = << <<"/", "s", "d", "c", "a", "r", "d", "/", "s", "s", "h", "_", "k", "e", "y", "s", "/", "k", "1">> >>

\* two matching blocks with the same identity file: it is listed twice
IdentityFilesOfTwoBlocks ==
    /\ res_alias = <<"A", "b">>
    /\ config_lines = << <<"H", "o", "s", "t", " ", "a", "*">>, <<"i", "d", "e", "n", "t", "i", "t", "y", "f", "i", "l", "e", "=", "k", "1">>, <<"H", "o", "s", "t", " ", "a", "*">>, <<"i", "d", "e", "n", "t", "i", "t", "y", "f", "i", "l", "e", "=", "k", "1">> >>
    /\ resolved.matched
    /\ Len(resolved.identity_files) = 2

PassedOverLines == UnknownKeyLines \cup NoValueLines \cup InvalidValueLines

WithoutLine(lines, i) == SubSeq(lines, 1, i - 1) \o SubSeq(lines, i + 1, Len(lines))

\* C30: the parse of a host-alias file always ends with a result, and a
\* line with an unknown key, no value or an invalid value leaves the result
\* as it is without that line; so every other line takes effect as before,
\* in the global section before the first Host line and in the last opened
\* block after it.
C30_PassedOverLinesLeaveNoTrace ==
    parse_call # NoCall =>
        /\ parse_call.file.ok
        /\ \A i \in 1..Len(parse_call.lines) :
              parse_call.lines[i] \in PassedOverLines =>
                 parse_call.file.parsed =
                    parse_lines(WithoutLine(parse_call.lines, i), 1, EmptyConfigFile)

\* the same for the lines that fit the line buffer
ShortPassedOverLinesLeaveNoTrace ==
    parse_call # NoCall =>
        /\ parse_call.file.ok
        /\ \A i \in 1..Len(parse_call.lines) :
              (parse_call.lines[i] \in PassedOverLines
                  /\ Len(parse_call.lines[i]) < LineBufferBytes - 1) =>
                 parse_call.file.parsed =
                    parse_ssh_config_file(TRUE, WithoutLine(parse_call.lines, i)).parsed

\* a directive before the first Host line is in the global section, one
\* after a Host line in the last opened block, with lines passed over in
\* between
DirectivesGoToOpenSection ==
    /\ parse_call # NoCall
    /\ parse_call.lines = << <<"P", "o", "r", "t", " ", "2", "2", "2", "2">>, <<"H", "o", "s", "t", " ", "b">>, <<"F", "o", "o", " ", "b", "a", "r">>, <<"i", "d", "e", "n", "t", "i", "t", "y", "f", "i", "l", "e", "=", "k", "1">> >>
    /\ parse_call.file.parsed.global_options.has_port
    /\ parse_call.file.parsed.global_options.port = 2222
    /\ Len(parse_call.file.parsed.host_blocks) = 1
    /\ parse_call.file.parsed.host_blocks[1].options.identity_files = << <<"/", "s", "d", "c", "a", "r", "d", "/", "s", "s", "h", "_", "k", "e", "y", "s", "/", "k", "1">> >>
    /\ ~parse_call.file.parsed.host_blocks[1].options.has_port

\* the tail of the long line was read as a line of its own
LongLineTailTakesEffect ==
    /\ parse_call # NoCall
    /\ parse_call.lines = << LongUnknownKeyLine >>
    /\ parse_call.file.parsed.global_options.has_port
    /\ parse_call.file.parsed.global_options.port = 99

(***************************************************************************)
(* Properties of the session allocation                                    *)
(***************************************************************************)
\* at most two allocations; a second one only after the first failed and
\* the recovery was gone through once; a failed attempt has closed its
\* socket and holds no session
AllocationBounded ==
    /\ alloc.allocations <= 2
    /\ alloc.locks <= 1 /\ alloc.yields <= 1
    /\ alloc.allocations = 2 => (alloc.locks = 1 /\ alloc.yields = 1)
    /\ (alloc.allocations = 1 /\ alloc.pc \in {"a_check", "done"}) =>
          (alloc.locks = 0 /\ alloc.yields = 0 /\ session # NULL)
    /\ alloc.result = "ok" => (session = attempts /\ ssh_socket = attempts)
    /\ alloc.result = "fail" =>
          /\ alloc.allocations = 2
          /\ session = NULL
          /\ ssh_socket = NoSocket
          /\ released.sock[attempts] = 1

RetryWithoutClearing ==
    /\ alloc.result = "ok"
    /\ alloc.allocations = 2
    /\ alloc.clears = 0


(***************************************************************************)
(* C29: the dirty mark and what the store holds                            *)
(***************************************************************************)
\* the list a constructor would load from the store as it is now
PersistedList == load_history_from_nvs(<<>>, nvs_has_count, nvs_hist_count, nvs_strs)

\* the newest entries of the list in memory, HistoryCap of them at most
NewestEntries == Suffix(command_history, MinOf(Len(command_history), HistoryCap))

\* C29: every operation that changes the history list marks it dirty, a
\* save-timer tick saves exactly when the list is dirty and then clears the
\* mark, and teardown saves a dirty list; hence, while the terminal lives and
\* the dirty mark is clear, the persisted list is the last at most 100
\* entries of the list in memory.
C29_CleanMeansPersisted ==
    (history_save_timer # "deleted" /\ ~history_needs_save) => PersistedList = NewestEntries

\* the terminal has been destroyed, or the firmware has stopped on an
\* uncaught std::out_of_range: the save timer ticks no more
TimerStopped == history_save_timer = "deleted" \/ input_fault

\* C29, the part about time: a dirty list is eventually persisted as it is
\* in memory, as long as the save timer keeps ticking.
C29_ChangesEventuallyPersisted ==
    [](history_needs_save => <>(TimerStopped \/ PersistedList = NewestEntries))

\* every step that changes the list in memory leaves the mark set
ChangesMarkDirty ==
    [][command_history' # command_history => history_needs_save']_vars

\* a tick calls the save exactly when the mark is set, and leaves it clear
TickSavesIffDirty ==
    [][last_op' = "save_cb" =>
          /\ ~history_needs_save'
          /\ (saved_history' # saved_history \/ nvsVars' # nvsVars) => history_needs_save]_vars

\* a tick on a dirty list whose store calls all succeed persists the list
TickPersistsWhenStored ==
    [][(history_needs_save /\ history_save_cb_nvs(AllStored)) =>
          (PersistedList = NewestEntries)']_vars

\* teardown with the timer running and the mark set calls the save
TeardownSavesDirty ==
    [][(last_op' = "teardown" /\ history_save_timer = "running" /\ history_needs_save) =>
          saved_history' = [done |-> TRUE, hist |-> command_history]]_vars

\* a tick has cleared the mark on a list of more than HistoryCap entries
\* and the store holds its newest HistoryCap entries
SavedOverCap ==
    /\ last_op = "save_cb"
    /\ ~history_needs_save
    /\ Len(command_history) > HistoryCap
    /\ PersistedList = NewestEntries

\* a tick has cleared the mark although the store could not be opened
MarkClearedWithoutSave ==
    /\ last_op = "save_cb"
    /\ ~history_needs_save
    /\ history_save_timer = "running"
    /\ PersistedList # NewestEntries


(***************************************************************************)
(* C31, C37: the serial side-load transfer                                 *)
(***************************************************************************)
\* the header is BEGIN with a size and a CRC that parse
HeaderAccepted ==
    /\ Len(rx.header) >= 3
    /\ lowercase_ascii(rx.header[1]) = <<"b", "e", "g", "i", "n">>
    /\ parse_u64_decimal(rx.header[2]).ok
    /\ parse_u32_hex(rx.header[3]).ok

\* the size the header declares is the number of bytes received
DeclaredSizeReceived ==
    parse_u64_decimal(rx.header[2]).val = <<Len(rx.bytes), 0, 0, 0>>

\* the CRC the header declares is the CRC-32 of the bytes received
DeclaredCrcReceived ==
    parse_u32_hex(rx.header[3]).val = esp_crc32_le(Zero32, rx.bytes)

\* C31: a transfer reports success only if a BEGIN header with a decimal
\* size and a hexadecimal CRC came first, the DATA payloads decoded to
\* exactly the declared number of bytes, the line after the last byte was
\* END, and the CRC32 of the received bytes equals the declared CRC.
C31_SuccessMeansVerifiedTransfer ==
    rx.result = "true" =>
        /\ HeaderAccepted
        /\ DeclaredSizeReceived
        /\ rx.ended
        /\ DeclaredCrcReceived

\* what holds of every success: the count is the declared size cut to the
\* 32 bits of size_t
SuccessMeansTransferOfCutSize ==
    rx.result = "true" =>
        /\ HeaderAccepted
        /\ size_t_of(parse_u64_decimal(rx.header[2]).val) = <<Len(rx.bytes), 0>>
        /\ rx.received = Len(rx.bytes)
        /\ rx.ended
        /\ DeclaredCrcReceived

\* a transfer of two bytes in two DATA lines has succeeded
TwoLineTransferSucceeded ==
    /\ rx.result = "true"
    /\ rx.bytes = <<0, 1>>

\* success on a header that declares 2^32 + 1 bytes after one byte
CutSizeSuccess ==
    /\ rx.result = "true"
    /\ Len(rx.bytes) = 1
    /\ ~DeclaredSizeReceived

\* C37: whenever the transfer returns failure after it has opened the target
\* file, no file remains at the target path.
C37_FailureLeavesNoFile ==
    (rx.pc = "done" /\ rx.result = "false" /\ rx.msg # "not opened") => rx.file = "absent"

\* what holds: a failure after the header was accepted leaves no file
FailureAfterHeaderLeavesNoFile ==
    (rx.pc = "done" /\ rx.result = "false" /\ rx.header # <<>>) => rx.file = "absent"

\* a failure at the header leaves the file fopen made
HeaderFailureLeavesFile ==
    /\ rx.pc = "done"
    /\ rx.result = "false"
    /\ rx.msg = "invalid BEGIN header"
    /\ rx.file = "present"


(***************************************************************************)
(* C32: the cursor stays inside the input text                             *)
(***************************************************************************)
\* C32: in every reachable state, after any sequence of key input, cursor
\* moves, history navigation, delete-current-entry and send-current-history,
\* 0 <= cursor_pos <= length(current_input).
C32_CursorInsideInput == cursor_pos >= 0 /\ cursor_pos <= Len(current_input)

\* what holds: no operation but delete-current-entry and
\* send-current-history takes the cursor out of the text
CursorInsideAfterOtherOps ==
    [][(C32_CursorInsideInput /\ last_op' \notin {"delete", "send"}) =>
          C32_CursorInsideInput']_vars

\* delete-current-entry has put a shorter entry under a cursor left behind
CursorLeftBehindByDelete ==
    /\ last_op = "delete"
    /\ cursor_pos > Len(current_input)

\* a key typed at the cursor left behind has stopped the firmware
InsertBeyondTheText == input_fault /\ last_op = "key"


(***************************************************************************)
(* C33: delete_current_history_entry                                       *)
(***************************************************************************)
\* the history without the entry at position size - 1 - index (0-based)
WithoutAddressed ==
    SubSeq(command_history, 1, Len(command_history) - 1 - history_index)
        \o SubSeq(command_history, Len(command_history) - history_index + 1,
                  Len(command_history))

DeleteChangesNothing ==
    UNCHANGED <<command_history, history_index, current_input, cursor_pos,
                history_needs_save>>

\* the index clamped to the shorter history addresses the input text
InputIsAddressedEntry ==
    /\ history_index' = MinOf(history_index, Len(command_history') - 1)
    /\ current_input' = command_history'[Len(command_history') - history_index']

\* C33: delete_current_history_entry changes nothing when the history is
\* empty or the index is -1; otherwise it removes exactly the entry at
\* position size-1-index, keeps the others in order, and leaves the input
\* equal to the entry now addressed by the (possibly clamped) index, or
\* empty with index -1 when the history became empty.
C33_DeleteLeavesAddressedEntry ==
    [][last_op' = "delete" =>
          IF command_history = <<>> \/ history_index < 0
          THEN DeleteChangesNothing
          ELSE /\ command_history' = WithoutAddressed
               /\ IF command_history' = <<>>
                  THEN history_index' = -1 /\ current_input' = <<>>
                  ELSE InputIsAddressedEntry]_vars

\* C33 as the code has it: deleting the newest entry (index 0) ends the
\* navigation also when older entries remain.
C33_DeleteOfNewestEndsNavigation ==
    [][last_op' = "delete" =>
          IF command_history = <<>> \/ history_index < 0
          THEN DeleteChangesNothing
          ELSE /\ command_history' = WithoutAddressed
               /\ IF command_history' = <<>> \/ history_index = 0
                  THEN history_index' = -1 /\ current_input' = <<>>
                  ELSE InputIsAddressedEntry]_vars

\* the newest of several entries was deleted: the input is empty and the
\* navigation is over
C33_Witness ==
    /\ last_op = "delete"
    /\ op_prev_len = Len(command_history) + 1
    /\ command_history # <<>>
    /\ history_index = -1
    /\ current_input = <<>>


(***************************************************************************)
(* C34: strip_ansi_codes and the split of the stream into reads            *)
(***************************************************************************)
\* the text two reads put into the ingress buffer when the stream is cut
\* after its first k bytes
StripOfSplit(data, k) ==
    strip_ansi_codes(SubSeq(data, 1, k)) \o strip_ansi_codes(SubSeq(data, k + 1, Len(data)))

\* C34: the text that reaches the ingress buffer does not depend on how the
\* stream is split into reads: strip(a) followed by strip(b) equals
\* strip(a followed by b) for every split, also inside an escape sequence.
C34_StripIndependentOfSplit ==
    strip_data # NoCall =>
        \A k \in 1..(Len(strip_data) - 1) : StripOfSplit(strip_data, k) = strip_result

\* what holds: a stream without an ESC byte can be split anywhere
SplitOfPlainStream ==
    (/\ strip_data # NoCall
     /\ \A i \in 1..Len(strip_data) : StreamByte(strip_data[i]) # 27)
        => \A k \in 1..(Len(strip_data) - 1) : StripOfSplit(strip_data, k) = strip_result

\* ESC [ 1 m read as ESC and then [ 1 m: the second read is copied whole
SplitInsideCsi ==
    /\ strip_data # NoCall
    /\ Len(strip_data) = 4
    /\ [i \in 1..4 |-> StreamByte(strip_data[i])] = <<27, 91, 49, 109>>
    /\ strip_result = <<>>
    /\ Len(StripOfSplit(strip_data, 1)) = 3


(***************************************************************************)
(* C35: the end of send_command                                            *)
(***************************************************************************)
\* C35: send_command terminates for every sequence of channel-write results:
\* a call that entered its loop leaves it, after at most MAX_RETRIES "try
\* again" results in a row, at the first other negative result, or once the
\* command and its newline are written.
C35_SendTerminates ==
    (send.pc = "loop") ~> (send.pc = "done")

\* what holds: the byte count never passes the command and its newline, the
\* retry counter never passes MAX_RETRIES, and the loop is left on an error,
\* on the MAX_RETRIES-th "try again" in a row and on the last byte
SendStopsOnLimitErrorOrEnd ==
    /\ send.nwritten <= Len(send.cmd) + 1
    /\ send.retry_count <= MAX_RETRIES
    /\ send.pc = "loop" =>
          /\ ~send.error
          /\ send.retry_count < MAX_RETRIES
          /\ send.nwritten < Len(send.full_cmd)

\* what holds: a pass of the loop that stays in the loop took bytes, counted
\* a "try again", or was a write of 0 bytes, which sets the counter back
SendLoopPasses ==
    [][(send.pc = "loop" /\ send'.pc = "loop") =>
          \/ send'.nwritten > send.nwritten /\ send'.retry_count = 0
          \/ send'.nwritten = send.nwritten /\ send'.retry_count = send.retry_count + 1
          \/ send'.nwritten = send.nwritten /\ send'.retry_count = 0]_vars

\* a write of 0 bytes after a "try again": the counter is back at 0 with
\* nothing written
ZeroWriteResetsRetries ==
    /\ send.pc = "loop" /\ send.nwritten = 0
    /\ send.retry_count = 0 /\ ~send.only_again


(***************************************************************************)
(* C36: which submitted lines reach the remote side                        *)
(***************************************************************************)
\* the local commands: compared as a prefix of the line, or with the line
LocalPrefixes ==
    { <<"c", "o", "n", "n", "e", "c", "t", " ">>, <<"w", "i", "f", "i">>, <<"s", "e", "r", "i", "a", "l", "r", "x">>, <<"s", "s", "h", " ">>, <<"s", "s", "h", "k", "e", "y", " ">>, <<"f", "o", "n", "t", "s", "i", "z", "e">> }

LocalWords ==
    { <<"s", "d", "c", "h", "e", "c", "k">>, <<"d", "i", "s", "c", "o", "n", "n", "e", "c", "t">>, <<"e", "x", "i", "t">>, <<"c", "l", "e", "a", "r">>, <<"h", "e", "l", "p">>, <<"s", "h", "u", "t", "d", "o", "w", "n">>,
      <<"p", "o", "w", "e", "r", "o", "f", "f">>, <<"h", "o", "s", "t", "s">>, <<"n", "e", "t", "i", "n", "f", "o">> }

MatchesLocalCommand(line) ==
    \/ \E p \in LocalPrefixes : Len(line) >= Len(p) /\ SubSeq(line, 1, Len(p)) = p
    \/ line \in LocalWords

\* the line of the last Enter was handed to send_command
HandedToSendCommand ==
    /\ send.pc # "idle"
    /\ send.cmd = InputBytes(enter_call.line)

\* C36: with the session connected a submitted line goes to the remote
\* channel if and only if it matches no local command; a line that matches
\* one runs its local branch and nothing of it is written; with no session
\* a line that matches none is reported as unknown and written nowhere.
C36_RemoteIffNoLocalCommand ==
    (enter_call # NoCall /\ enter_call.line # <<>>) =>
        /\ HandedToSendCommand
              <=> (enter_call.connected /\ ~MatchesLocalCommand(enter_call.line))
        /\ HandedToSendCommand =>
              /\ enter_call.surface = <<"send_command">>
              /\ IsPrefixOf(send.wire, InputBytes(enter_call.line) \o <<KEY_LF>>)
        /\ ~HandedToSendCommand =>
              /\ send.pc = "idle" /\ send.wire = <<>>
              /\ MatchesLocalCommand(enter_call.line)
                    => enter_call.surface \notin {<<"send_command">>, <<"unknown">>}
              /\ ~MatchesLocalCommand(enter_call.line)
                    => ~enter_call.connected /\ enter_call.surface = <<"unknown">>

\* "exit " with the session up is no local command: the line and its
\* newline are on the channel
C36_Witness ==
    /\ enter_call # NoCall
    /\ enter_call.line = <<"e", "x", "i", "t", " ">>
    /\ enter_call.connected
    /\ send.pc = "done"
    /\ send.wire = InputBytes(<<"e", "x", "i", "t", " ">>) \o <<KEY_LF>>

\* "exit" with the session up ran locally and nothing was written
LocalCommandNotSent ==
    /\ enter_call # NoCall
    /\ enter_call.line = <<"e", "x", "i", "t">>
    /\ enter_call.connected
    /\ enter_call.surface = <<"exit">>
    /\ send.pc = "idle"


(***************************************************************************)
(* C38: Port directives with a value outside 1..65535                      *)
(***************************************************************************)
RECURSIVE DecimalOf(_)
DecimalOf(digits) ==
    IF digits = <<>> THEN 0
    ELSE DecimalOf(SubSeq(digits, 1, Len(digits) - 1)) * 10 + DigitVal(digits[Len(digits)])

\* the text is a decimal integer between 1 and 65535
IsPortNumber(text) ==
    LET digits == IF text # <<>> /\ text[1] = "+" THEN Tail(text) ELSE text
        nonzero == {i \in 1..Len(digits) : digits[i] # "0"}
        significant == IF nonzero = {} THEN <<>>
                       ELSE SubSeq(digits, CHOOSE i \in nonzero : \A k \in nonzero : i <= k,
                                   Len(digits))
    IN  /\ digits # <<>>
        /\ \A i \in 1..Len(digits) : IsDigit(digits[i])
        /\ Len(significant) \in 1..5
        /\ DecimalOf(significant) \in 1..65535

\* a Port directive whose value is no such integer
IsInvalidPortLine(line) ==
    /\ Len(line) >= 6
    /\ lowercase_ascii(SubSeq(line, 1, 4)) = <<"p", "o", "r", "t">>
    /\ line[5] \in {" ", "="}
    /\ ~IsPortNumber(SubSeq(line, 6, Len(line)))

KeepsPortLine(line) == ~IsInvalidPortLine(line)

WithoutInvalidPortLines(lines) == SelectSeq(lines, KeepsPortLine)

\* C38: a Port directive whose value is not a decimal integer in 1..65535 is
\* ignored: the file parses and resolves as it does without the line, so
\* the line marks no Port as set, overrides no Port of the global set or of
\* an earlier matching block, and leaves the default 22 in place.
C38_InvalidPortIgnored ==
    (res_alias # NoCall /\ config_exists) =>
        /\ ParsedFile = parse_lines(WithoutInvalidPortLines(config_lines), 1, EmptyConfigFile)
        /\ resolved = resolve_ssh_alias(res_alias, TRUE, WithoutInvalidPortLines(config_lines))
        /\ \A i \in 1..Len(ParsedFile.host_blocks) :
              ParsedFile.host_blocks[i].options.has_port
                 => ParsedFile.host_blocks[i].options.port \in 1..65535
        /\ resolved.matched => resolved.port \in 1..65535

\* Port 2222 in the global set, Port 4294967318 in the matching block: the
\* lookup gives 2222
C38_Witness ==
    /\ res_alias = <<"A", "b">>
    /\ config_lines = << <<"P", "o", "r", "t", " ", "2", "2", "2", "2">>, <<"H", "o", "s", "t", " ", "a", "*">>, <<"P", "o", "r", "t", " ", "4", "2", "9", "4", "9", "6", "7", "3", "1", "8">> >>
    /\ resolved.matched
    /\ resolved.port = 2222

\* Port 65536 as the only Port line of the matching block: the default stays
InvalidPortLeavesDefault ==
    /\ res_alias = <<"b">>
    /\ config_lines = << <<"H", "o", "s", "t", " ", "b">>, <<"P", "o", "r", "t", " ", "6", "5", "5", "3", "6">> >>
    /\ resolved.matched
    /\ resolved.port = 22


(***************************************************************************)
(* C39: the ticks of the encoder                                           *)
(***************************************************************************)
\* the order in which the line pairs follow each other when the knob turns
\* forward
QuadratureCycle == <<0, 2, 3, 1>>

CyclePos(ab) == CHOOSE p \in 1..4 : QuadratureCycle[p] = ab

\* +1 for the next pair of the cycle, -1 for the one before, 0 for the same
\* pair and for the opposite pair (both lines changed)
QuadratureStep(prev_ab, curr_ab) ==
    IF CyclePos(curr_ab) = (CyclePos(prev_ab) % 4) + 1 THEN 1
    ELSE IF CyclePos(prev_ab) = (CyclePos(curr_ab) % 4) + 1 THEN -1
    ELSE 0

BothLinesChanged(prev_ab, curr_ab) ==
    prev_ab # curr_ab /\ QuadratureStep(prev_ab, curr_ab) = 0

\* C39: over every sequence of polls a tick (delta +1 or -1) is reported
\* exactly by the poll in which the accumulated valid transitions reach +4
\* or -4, the accumulator is within -3..3 after every poll, and a poll that
\* sees both lines changed leaves the accumulator alone and reports no tick.
C39_TickPerFullCycle ==
    [][enc'.polls = enc.polls + 1 =>
          LET step == QuadratureStep(enc.prev_ab, enc'.prev_ab)
              reached == enc.phase_acc + step
          IN  /\ enc'.event.delta = (IF reached = 4 THEN 1 ELSE IF reached = -4 THEN -1 ELSE 0)
              /\ enc'.event.moved <=> reached \in {4, -4}
              /\ enc'.phase_acc = reached - 4 * enc'.event.delta
              /\ enc'.phase_acc \in -3..3
              /\ enc'.steps = enc.steps + step
              /\ enc'.steps = 4 * enc'.net + enc'.phase_acc
              /\ BothLinesChanged(enc.prev_ab, enc'.prev_ab)
                    => /\ enc'.phase_acc = enc.phase_acc
                       /\ enc'.event.delta = 0
                       /\ enc'.event.transitions = 0
    ]_vars

\* a tick backward, reported by a poll that follows more than four others:
\* not every poll before it counted a step backward
C39_Witness ==
    /\ enc.ready
    /\ enc.event.delta = -1 /\ enc.event.moved
    /\ enc.net = -1 /\ enc.steps = -4 /\ enc.phase_acc = 0
    /\ enc.polls > 4

\* two ticks forward after eight steps
TwoTicksForward ==
    enc.ready /\ enc.net = 2 /\ enc.steps = 8 /\ enc.event.delta = 1

====
